---- MODULE Spec2Model ----
(***************************************************************************)
(* Verification model of the paneling tool.                                *)
(*                                                                         *)
(*   src/src/paneling.py  compute_adjusted_targets, create_balanced_sample,*)
(*                        create_panels, check_master_distribution,        *)
(*                        split_panel_into_two, split_all_panels           *)
(*   src/src/utils.py     validate_target_proportions, check_availability, *)
(*                        check_overlap_between_sets                       *)
(*   src/main.py          validate_target_proportions, check_availability, *)
(*                        compute_adjusted_targets, create_balanced_sample,*)
(*                        create_panels, split_panel_into_n_sets, main     *)
(*   src/src/main.py      main                                             *)
(*                                                                         *)
(* Conventions.                                                            *)
(*  - A data frame is a sequence of rows; a row is a function from column  *)
(*    name to category.  Row positions are 1-based here (0-based in        *)
(*    pandas); only equality of positions matters.                         *)
(*  - Proportions are exact rationals.  A target proportion is an integer  *)
(*    number of hundredths (PropDen); a computed proportion is a pair      *)
(*    <<numerator, denominator>>.                                          *)
(*  - numpy's seeded generator (shuffle, sample) is a nondeterministic     *)
(*    choice among all outcomes the call can produce.                      *)
(*    Only where the splitting functions are called panel by panel is the  *)
(*    generator's state a variable (rng_state).                            *)
(***************************************************************************)
EXTENDS Integers, Sequences, FiniteSets, TLC

VARIABLES
    master_df,              \* the dataset: sequence of rows
    original_index,         \* position -> value of the frame's original index
    target_dict,            \* feature -> (category -> hundredths)
    features,               \* ordered list of stratification features
    num_panels,
    panel_size,
    pc,                     \* position in the running operation
    adjusted_targets,       \* feature -> (category -> <<num, den>>)
    allocation_info,        \* feature -> [needs_adjustment, categories]
    dist_info,              \* result of check_master_distribution
    remaining_targets,      \* the target spec last handed to the sampler
    pre_allocated_by_panel, \* panel number -> set of positions
    constrained_categories, \* feature -> set of categories
    pre_queue,              \* constrained <<feature, category>> still to pre-allocate
    cat_indices,            \* the shuffled rows of the category pre-allocated last
    chunks,                 \* panel number -> the slice of cat_indices it was given
    used_indices,           \* the exclusion set
    panels,                 \* sequence of [pre, rem]: the two frames concatenated
                            \* (split_all_panels on its own: the list of frames)
    panel_splits,           \* sequence of <<set_a, set_b>> (identifier sets)
                            \* (split_all_panels on its own: panel number -> sets)
    overlap_results,        \* result of check_overlap_between_sets
    panel,                  \* split_panel_into_n_sets: the panel (sequence of rows)
    num_sets,
    sets,                   \* split_panel_into_n_sets: list of lists of identifiers
    rng_state,              \* the state of numpy's global generator
    sample_size,            \* create_balanced_sample called on its own: its
    exclude_indices,        \*   arguments
    sampled_df,             \*   and the frame it returns
    all_sets,               \* check_overlap_between_sets called on its own: its argument
    session_state,          \* the wizard: st.session_state
    app,                    \* the wizard: which main() is running
    is_sufficient,          \* the wizard: result of check_availability on page 3
    is_valid,               \* the wizard: result of validate_target_proportions
    exported_files          \* the wizard: the files one export of page 5 wrote

vars == <<master_df, original_index, target_dict, features, num_panels,
          panel_size, pc, adjusted_targets, allocation_info,
          pre_allocated_by_panel, constrained_categories, pre_queue,
          cat_indices, chunks, dist_info, remaining_targets,
          used_indices, panels, panel_splits,
          overlap_results,
          panel, num_sets, sets, rng_state, sample_size, exclude_indices,
          sampled_df,
          all_sets, session_state, app, is_sufficient, is_valid,
          exported_files>>

inputVars == <<master_df, original_index, target_dict, features, num_panels,
               panel_size>>
allocVars == <<adjusted_targets, allocation_info, pre_allocated_by_panel,
               constrained_categories, pre_queue, cat_indices, chunks,
               dist_info, remaining_targets, used_indices, panels>>
splitVars == <<panel_splits, overlap_results>>
nwayVars  == <<panel, num_sets, sets, rng_state>>
sampleVars == <<sample_size, exclude_indices, sampled_df>>
wizardVars == <<session_state, app, is_sufficient, is_valid, exported_files>>

----------------------------------------------------------------------------
(* Bounds of the model.                                                    *)

MaxRecords   == 4
MaxPanels    == 2
MaxPanelSize == 3
MaxSets      == 3
MaxPanelRows == 5
MaxSetList   == 3
MaxLabels    == 2
MaxWizardRows == 3
RngMod == 6
MaxFlowRows == 2
MaxFlowPanels == 2
MaxFlowPanelSize == 2
MaxFlowSets == 2

(* Program constants.                                                      *)

PropDen == 100      \* a target proportion p is p / PropDen
TolDen  == 1000     \* 1e-3, the tolerance on the sum of adjusted proportions
CVLimitNum == 15    \* 0.15 = CVLimitNum / CVLimitDen, the limit on the
CVLimitDen == 100   \* coefficient of variation of per-panel counts

NoValue == "none"

----------------------------------------------------------------------------
(* Arithmetic and combinatorial helpers.                                   *)

\* np.round on a non-negative rational n/d: round half to even.
RoundHalfEven(n, d) ==
    LET q == n \div d
        r == n % d
    IN  IF 2 * r < d THEN q
        ELSE IF 2 * r > d THEN q + 1
        ELSE IF q % 2 = 0 THEN q ELSE q + 1

RECURSIVE SumOver(_, _)
\* sum of f[x] over x in S
SumOver(f, S) ==
    IF S = {} THEN 0
    ELSE LET x == CHOOSE y \in S : TRUE
         IN  f[x] + SumOver(f, S \ {x})

SubsetsOfSize(S, n) == {T \in SUBSET S : Cardinality(T) = n}

\* DataFrame.sample(n, replace=False) / taking the whole pool when it is short
Draws(pool, n) ==
    IF Cardinality(pool) >= n THEN SubsetsOfSize(pool, n) ELSE {pool}

\* all orders np.random.shuffle can leave a list of the elements of S in
Shuffles(S) ==
    LET n == Cardinality(S)
    IN  {p \in [1..n -> S] : \A a, b \in 1..n : a # b => p[a] # p[b]}

Range(s) == {s[k] : k \in DOMAIN s}

RECURSIVE IndexList(_)
\* .index.tolist() of a selection of the panel's rows: ascending positions
IndexList(S) ==
    IF S = {} THEN <<>>
    ELSE LET x == CHOOSE y \in S : \A z \in S : y <= z
         IN  <<x>> \o IndexList(S \ {x})

----------------------------------------------------------------------------
(* Data frames.                                                            *)

Rows(df) == DOMAIN df

\* df[df[feature] == cat]
RowsWith(df, pool, feature, cat) == {r \in pool : df[r][feature] = cat}

\* (df[feature] == cat).sum()
CountOf(df, feature, cat) == Cardinality(RowsWith(df, Rows(df), feature, cat))

\* df.columns of every frame of the model
Columns == {"G", "Z", "A", "B"}

----------------------------------------------------------------------------
(* Inputs.                                                                 *)

\* validate_target_proportions: 0.99 <= total <= 1.01 for every feature
validate_target_proportions(td) ==
    \A f \in DOMAIN td :
        LET total == SumOver(td[f], DOMAIN td[f])
        IN  99 * PropDen <= 100 * total /\ 100 * total <= 101 * PropDen

GTargets ==
    { [F |-> 50, M |-> 50],
      [F |-> 50, M |-> 49],
      [F |-> 90, M |-> 10],
      [F |-> 80, M |-> 10, X |-> 10],
      [F |-> 100] }

ZTargets ==
    { [N |-> 50, S |-> 50],
      [N |-> 100] }

\* the target specs offered with each feature list
TargetChoices(fs) ==
    IF "Z" \notin Range(fs)
    THEN {[f \in {"G"} |-> t] : t \in GTargets}
    ELSE {[f \in {"G", "Z"} |-> IF f = "G" THEN tz[1] ELSE tz[2]] :
            tz \in ({[F |-> 50, M |-> 50], [F |-> 100]} \X ZTargets)}

\* the feature lists; "Q" names a feature that is not a column of the dataset
FeatureLists == {<<"G">>, <<"G", "Z">>, <<"G", "Q">>}

\* the distinct rows a dataset for the feature list is built from
CellsFor(fs) ==
    IF "Z" \notin Range(fs)
    THEN << [G |-> "F", Z |-> "N", A |-> "P", B |-> "U"],
            [G |-> "M", Z |-> "N", A |-> "P", B |-> "U"],
            [G |-> "X", Z |-> "N", A |-> "P", B |-> "U"] >>
    ELSE IF Len(fs) = 2
    THEN << [G |-> "F", Z |-> "N", A |-> "P", B |-> "U"],
            [G |-> "F", Z |-> "S", A |-> "P", B |-> "U"],
            [G |-> "M", Z |-> "N", A |-> "P", B |-> "U"],
            [G |-> "M", Z |-> "S", A |-> "P", B |-> "U"] >>
    ELSE IF Len(fs) = 3
    THEN << [G |-> "F", Z |-> "N", A |-> "P", B |-> "U"],
            [G |-> "F", Z |-> "N", A |-> "Q", B |-> "U"],
            [G |-> "F", Z |-> "S", A |-> "P", B |-> "U"],
            [G |-> "F", Z |-> "S", A |-> "Q", B |-> "U"] >>
    ELSE << [G |-> "F", Z |-> "N", A |-> "P", B |-> "U"],
            [G |-> "F", Z |-> "N", A |-> "P", B |-> "V"],
            [G |-> "F", Z |-> "N", A |-> "Q", B |-> "U"],
            [G |-> "F", Z |-> "N", A |-> "Q", B |-> "V"] >>

\* datasets of n rows over the cells, rows grouped by cell
DatasetsOfLen(cells, n) ==
    { [r \in 1..n |-> cells[s[r]]] :
        s \in {t \in [1..n -> 1..Len(cells)] :
                 \A a \in 1..n : a < n => t[a] <= t[a + 1]} }

Datasets(cells, maxLen) ==
    UNION {DatasetsOfLen(cells, n) : n \in 1..maxLen}

\* the RangeIndex pandas gives a frame that was read from a file or built
\* from a dict
RangeIndex(df) == [r \in Rows(df) |-> r]

\* the master frame's original_index column: any unique labels; the labels
\* of a RangeIndex and the same labels in reverse order
IndexChoices(df) ==
    {RangeIndex(df), [r \in Rows(df) |-> Len(df) + 1 - r]}

InitInputs ==
    /\ features \in FeatureLists
    /\ master_df \in Datasets(CellsFor(features), MaxRecords)
    /\ original_index = RangeIndex(master_df)
    /\ target_dict \in TargetChoices(features)
    /\ validate_target_proportions(target_dict)
    /\ num_panels \in 1..MaxPanels
    /\ panel_size \in 1..MaxPanelSize

InitRestAlloc ==
    /\ adjusted_targets = NoValue
    /\ allocation_info = NoValue
    /\ pre_allocated_by_panel = NoValue
    /\ constrained_categories = NoValue
    /\ pre_queue = <<>>
    /\ cat_indices = <<>>
    /\ chunks = <<>>
    /\ dist_info = NoValue
    /\ remaining_targets = <<>>
    /\ used_indices = {}
    /\ panels = <<>>

InitRestSample ==
    /\ sample_size = 0
    /\ exclude_indices = {}
    /\ sampled_df = NoValue

InitRestWizard ==
    /\ exported_files = {}
    /\ session_state = NoValue
    /\ app = NoValue
    /\ is_sufficient = NoValue
    /\ is_valid = NoValue

InitRestNway ==
    /\ panel = <<>>
    /\ num_sets = 0
    /\ sets = <<>>
    /\ rng_state = NoValue

InitRest ==
    /\ InitRestAlloc
    /\ panel_splits = <<>>
    /\ overlap_results = NoValue
    /\ all_sets = <<>>
    /\ InitRestNway
    /\ InitRestSample
    /\ InitRestWizard

----------------------------------------------------------------------------
(* check_master_distribution                                               *)

\* the entry of one target category: SHORT when the category's share of the
\* dataset is below its target proportion
CategoryStatus(df, feature, cat, p) ==
    IF CountOf(df, feature, cat) * PropDen >= p * Len(df) THEN "OK" ELSE "SHORT"

\* a feature that is not a column is recorded in `warnings` and skipped
check_master_distribution(df, td, fs) ==
    [warnings |-> {f \in Range(fs) : f \notin Columns},
     features |->
        [f \in {g \in Range(fs) : g \in Columns} |->
            IF f \in DOMAIN td
            THEN [c \in DOMAIN td[f] |-> CategoryStatus(df, f, c, td[f][c])]
            ELSE <<>>]]

----------------------------------------------------------------------------
(* compute_adjusted_targets                                                *)

\* ideal_total = int(np.round(total_needed * ideal_proportion))
IdealTotal(p, np, ps) == RoundHalfEven(np * ps * p, PropDen)

\* (variant: a category whose supply equals its demand counts as short)
InShortfall_le(df, feature, cat, p, np, ps) ==
    CountOf(df, feature, cat) <= IdealTotal(p, np, ps)

\* available_count < ideal_total
InShortfall(df, feature, cat, p, np, ps) ==
    CountOf(df, feature, cat) < IdealTotal(p, np, ps)

\* (variant: a short category's available count is not divided by num_panels)
RawCountScaled_undivided(df, feature, cat, p, np, ps) ==
    IF InShortfall(df, feature, cat, p, np, ps)
    THEN CountOf(df, feature, cat) * PropDen * np
    ELSE ps * p * np

\* (variant: a short category keeps its ideal per-panel count)
RawCountScaled_ideal(df, feature, cat, p, np, ps) == ps * p * np

\* raw_counts_per_panel[category], scaled by PropDen * num_panels so that it
\* is an integer: available / num_panels in shortfall, panel_size * p otherwise
RawCountScaled(df, feature, cat, p, np, ps) ==
    IF InShortfall(df, feature, cat, p, np, ps)
    THEN CountOf(df, feature, cat) * PropDen
    ELSE ps * p * np

CategoryInfo(df, feature, cat, p, np, ps) ==
    LET avail == CountOf(df, feature, cat)
        ideal == IdealTotal(p, np, ps)
    IN  IF avail < ideal
        THEN [ideal_total |-> ideal, available |-> avail,
              shortfall |-> ideal - avail, per_panel |-> avail \div np]
        ELSE [ideal_total |-> ideal, available |-> avail,
              shortfall |-> 0, per_panel |-> (ps * p) \div PropDen]

\* second pass: raw counts to proportions, or the original target when the
\* raw counts sum to zero
\* (variant: the raw count is divided by panel_size, not by the raw total)
AdjustedProportion_unnormalised(raw, total, p, np, ps) ==
    IF total > 0 THEN <<raw, PropDen * np * ps>> ELSE <<p, PropDen>>

AdjustedProportion(raw, total, p, np, ps) ==
    IF total > 0 THEN <<raw, total>> ELSE <<p, PropDen>>

\* the features the loop does not skip
AdjustedFeatures(td, fs) == {f \in Range(fs) : f \in Columns /\ f \in DOMAIN td}

compute_adjusted_targets(df, td, fs, np, ps) ==
    LET Fs == AdjustedFeatures(td, fs)
        raw(f) == [c \in DOMAIN td[f] |->
                     RawCountScaled(df, f, c, td[f][c], np, ps)]
        total(f) == SumOver(raw(f), DOMAIN td[f])
    IN  [targets |->
            [f \in Fs |-> [c \in DOMAIN td[f] |->
                AdjustedProportion(raw(f)[c], total(f), td[f][c], np, ps)]],
         info |->
            [f \in Fs |->
                [needs_adjustment |->
                    \E c \in DOMAIN td[f] :
                        InShortfall(df, f, c, td[f][c], np, ps),
                 categories |->
                    [c \in DOMAIN td[f] |->
                        CategoryInfo(df, f, c, td[f][c], np, ps)]]]]

----------------------------------------------------------------------------
(* create_balanced_sample                                                  *)

\* int(np.round(size * prob)) for a proportion prob = <<num, den>>
TargetCount(size, prob) == RoundHalfEven(size * prob[1], prob[2])

\* `family` is a set of [key, pool, n]: one independent draw of n rows from
\* pool per key.  The sets of rows that selected_indices can end up holding.
RECURSIVE UnionsOfDraws(_)
UnionsOfDraws(family) ==
    IF family = {} THEN {{}}
    ELSE LET d == CHOOSE x \in family : TRUE
         IN  {a \cup b : a \in Draws(d.pool, d.n),
                         b \in UnionsOfDraws(family \ {d})}

\* single feature stratification
SingleFeatureDraws(df, avail, td, fs, size) ==
    LET f == fs[1]
    IN  { [key |-> <<c>>,
           pool |-> RowsWith(df, avail, f, c),
           n |-> TargetCount(size, td[f][c])] : c \in DOMAIN td[f] }

\* hierarchical sampling: primary feature, then the second feature inside
\* each primary category, then every further feature on its own inside each
\* joint group
HierarchicalDraws(df, avail, td, fs, size) ==
    LET f1 == fs[1]
        f2 == fs[2]
        primaryTarget(c1) == TargetCount(size, td[f1][c1])
        jointTarget(c1, c2) == TargetCount(primaryTarget(c1), td[f2][c2])
        jointPool(c1, c2) ==
            RowsWith(df, RowsWith(df, avail, f1, c1), f2, c2)
        joint == { cc \in (DOMAIN td[f1]) \X (DOMAIN td[f2]) :
                     /\ jointTarget(cc[1], cc[2]) # 0
                     /\ jointPool(cc[1], cc[2]) # {} }
    IN  IF Len(fs) > 2
        THEN UNION { UNION { { [key |-> <<cc[1], cc[2], k, c3>>,
                               pool |-> RowsWith(df, jointPool(cc[1], cc[2]),
                                                 fs[k], c3),
                               n |-> TargetCount(jointTarget(cc[1], cc[2]),
                                                 td[fs[k]][c3])]
                              : c3 \in { c \in DOMAIN td[fs[k]] :
                                    TargetCount(jointTarget(cc[1], cc[2]),
                                                td[fs[k]][c]) # 0 } }
                            : k \in 3..Len(fs) }
                   : cc \in joint }
        ELSE { [key |-> cc, pool |-> jointPool(cc[1], cc[2]),
                n |-> jointTarget(cc[1], cc[2])] : cc \in joint }

\* (variant: a selection that falls short of the size is not filled up)
FillOrTrim_nofill(avail, selected, size) ==
    IF Cardinality(selected) > size
    THEN SubsetsOfSize(selected, size)
    ELSE {selected}

\* (variant: a selection that exceeds the size is returned untrimmed)
FillOrTrim_notrim(avail, selected, size) ==
    LET have == Cardinality(selected)
        remaining_pool == avail \ selected
    IN  IF have < size /\ Cardinality(remaining_pool) >= size - have
        THEN {selected \cup extra :
                extra \in SubsetsOfSize(remaining_pool, size - have)}
        ELSE {selected}

\* correction step on the deduplicated selection: fill up to the size with a
\* random draw from the rest of the pool, or trim to the size
FillOrTrim(avail, selected, size) ==
    LET have == Cardinality(selected)
        remaining_pool == avail \ selected
    IN  IF have < size
        THEN IF Cardinality(remaining_pool) >= size - have
             THEN {selected \cup extra :
                     extra \in SubsetsOfSize(remaining_pool, size - have)}
             ELSE {selected}
        ELSE IF have > size
        THEN SubsetsOfSize(selected, size)
        ELSE {selected}

\* df[~df['original_index'].isin(exclude_indices)]
AvailableRows(df, oidx, excluded) ==
    {r \in Rows(df) : oidx[r] \notin excluded}

\* (variant: the identifiers are looked up in the frame's index)
ReturnedRows_byLabel(df, oidx, smp) ==
    {r \in Rows(df) : r \in {oidx[q] : q \in smp}}

\* df[df['original_index'].isin(original_indices)]: a boolean mask over the
\* master frame, so every row of it is returned at most once
ReturnedRows(df, oidx, smp) ==
    {r \in Rows(df) : oidx[r] \in {oidx[q] : q \in smp}}

\* The frames create_balanced_sample can return: `rows` are the rows of the
\* master frame in it, `index` the labels of its index.  td is the target
\* dict, fs its keys in order.
create_balanced_sample(df, oidx, td, fs, size, excluded) ==
    LET avail == AvailableRows(df, oidx, excluded)
    IN  IF Cardinality(avail) < size
        THEN \* available_df.head(sample_size): the whole pool, carrying the
             \* index that reset_index(drop=True) gave it
             { [rows |-> avail, index |-> 1..Cardinality(avail)] }
        ELSE LET family == IF Len(fs) >= 2
                           THEN HierarchicalDraws(df, avail, td, fs, size)
                           ELSE SingleFeatureDraws(df, avail, td, fs, size)
                 sampled == UNION { FillOrTrim(avail, sel, size) :
                                      sel \in UnionsOfDraws(family) }
             IN  { [rows |-> ReturnedRows(df, oidx, smp),
                    index |-> ReturnedRows(df, oidx, smp)] : smp \in sampled }

----------------------------------------------------------------------------
(* create_panels                                                           *)

\* constrained_categories: per feature that needs adjustment, the categories
\* with a positive shortfall
ConstrainedCategories(info, fs) ==
    [f \in {g \in Range(fs) : g \in DOMAIN info /\ info[g].needs_adjustment} |->
        {c \in DOMAIN info[f].categories : info[f].categories[c].shortfall > 0}]

RECURSIVE SetToSeq(_)
SetToSeq(S) ==
    IF S = {} THEN <<>>
    ELSE LET x == CHOOSE y \in S : TRUE
         IN  <<x>> \o SetToSeq(S \ {x})

RECURSIVE ConstrainedQueue(_, _)
\* the <<feature, category>> pairs the pre-allocation loop visits
ConstrainedQueue(cc, fs) ==
    IF fs = <<>> THEN <<>>
    ELSE (IF Head(fs) \in DOMAIN cc
          THEN SetToSeq({<<Head(fs), c>> : c \in cc[Head(fs)]})
          ELSE <<>>) \o ConstrainedQueue(cc, Tail(fs))

Min(a, b) == IF a < b THEN a ELSE b

\* the slice without its last element
Chunk_endExclusive(shuffled, per_panel, panel_no, np) ==
    LET start == (panel_no - 1) * per_panel
        end == Min(start + per_panel, Len(shuffled)) - 1
    IN  SubSeq(shuffled, start + 1, end)

\* the slice taken one chunk too far: panel 1 starts at per_panel
Chunk_fromPanelNo(shuffled, per_panel, panel_no, np) ==
    LET start == panel_no * per_panel
        end == Min(start + per_panel, Len(shuffled))
    IN  SubSeq(shuffled, start + 1, end)

\* cat_indices[start:end] for panel panel_no (1-based), as a list
Chunk(shuffled, per_panel, panel_no, np) ==
    LET start == (panel_no - 1) * per_panel
        end == Min(start + per_panel, Len(shuffled))
    IN  SubSeq(shuffled, start + 1, end)

\* (variant: the remaining proportions are not renormalised)
RemainingTargets_notRenormalised(adj, cc, fs) ==
    [f \in {g \in Range(fs) : g \in DOMAIN adj} |->
        LET cats == IF f \in DOMAIN cc
                    THEN {c \in DOMAIN adj[f] : c \notin cc[f]}
                    ELSE DOMAIN adj[f]
        IN  [c \in cats |-> adj[f][c]]]

\* remaining_targets: for each adjusted feature the unconstrained categories,
\* renormalised when their proportions sum to more than zero
RemainingTargets(adj, cc, fs) ==
    [f \in {g \in Range(fs) : g \in DOMAIN adj} |->
        LET cats == IF f \in DOMAIN cc
                    THEN {c \in DOMAIN adj[f] : c \notin cc[f]}
                    ELSE DOMAIN adj[f]
            num == [c \in cats |-> adj[f][c][1]]
            total == SumOver(num, cats)
        IN  [c \in cats |->
                IF total > 0 THEN <<num[c], total>> ELSE adj[f][c]]]

\* list(target_dict.keys()) of remaining_targets
RECURSIVE KeysInOrder(_, _)
KeysInOrder(td, fs) ==
    IF fs = <<>> THEN <<>>
    ELSE (IF Head(fs) \in DOMAIN td THEN <<Head(fs)>> ELSE <<>>)
            \o KeysInOrder(td, Tail(fs))

\* any(remaining_targets.values())
AnyTargets(td) == \E f \in DOMAIN td : DOMAIN td[f] # {}

\* the uniform random fill when there is no remaining target
RandomRemaining(df, used, remaining_needed) ==
    LET available == {r \in Rows(df) : r \notin used}
    IN  { [rows |-> smp, index |-> smp] : smp \in Draws(available, remaining_needed) }

\* the frames the sampling step of one loop iteration can produce
RemainingFrames(df, oidx, adj, cc, fs, used, remaining_needed) ==
    IF remaining_needed > 0
    THEN LET targets == RemainingTargets(adj, cc, fs)
         IN  IF AnyTargets(targets)
             THEN create_balanced_sample(df, oidx, targets,
                                         KeysInOrder(targets, fs),
                                         remaining_needed, used)
             ELSE RandomRemaining(df, used, remaining_needed)
    ELSE { [rows |-> {}, index |-> {}] }

InitCreate ==
    /\ InitInputs
    /\ InitRest
    /\ pc = "start"

\* create_panels up to the pre-allocation loop
CreatePanelsBegin ==
    /\ pc = "start"
    /\ LET res == compute_adjusted_targets(master_df, target_dict, features,
                                           num_panels, panel_size)
           cc == ConstrainedCategories(res.info, features)
           queue == ConstrainedQueue(cc, features)
       IN  /\ adjusted_targets' = res.targets
           /\ allocation_info' = res.info
           /\ constrained_categories' = cc
           /\ pre_queue' = queue
           /\ pc' = IF queue = <<>> THEN "panels" ELSE "prealloc"
    /\ dist_info' = check_master_distribution(master_df, target_dict, features)
    /\ remaining_targets' = <<>>
    /\ pre_allocated_by_panel' = [k \in 1..num_panels |-> {}]
    /\ cat_indices' = <<>>
    /\ chunks' = <<>>
    /\ used_indices' = {}
    /\ panels' = <<>>
    /\ UNCHANGED <<inputVars, splitVars, nwayVars, sampleVars, all_sets,
                   wizardVars>>

\* one constrained category: shuffle its rows, give every panel its chunk
PreAllocate ==
    /\ pc = "prealloc"
    /\ pre_queue # <<>>
    /\ LET f == Head(pre_queue)[1]
           cat == Head(pre_queue)[2]
           per_panel == allocation_info[f].categories[cat].per_panel
       IN  /\ cat_indices' \in Shuffles(RowsWith(master_df, Rows(master_df), f, cat))
           /\ chunks' = [k \in 1..num_panels |->
                            Chunk(cat_indices', per_panel, k, num_panels)]
           /\ pre_allocated_by_panel' =
                 [k \in 1..num_panels |->
                     pre_allocated_by_panel[k] \cup Range(chunks'[k])]
    /\ pre_queue' = Tail(pre_queue)
    /\ pc' = IF Tail(pre_queue) = <<>> THEN "panels" ELSE "prealloc"
    /\ UNCHANGED <<inputVars, adjusted_targets, allocation_info,
                   constrained_categories, dist_info, remaining_targets,
                   used_indices, panels,
                   splitVars,
                   nwayVars, sampleVars, all_sets, wizardVars>>

\* one iteration of the panel loop; the last one returns the panels
BuildPanel ==
    /\ pc = "panels"
    /\ Len(panels) < num_panels
    /\ LET k == Len(panels) + 1
           pre_allocated_indices == pre_allocated_by_panel[k]
           used == used_indices \cup pre_allocated_indices
           remaining_needed == panel_size - Cardinality(pre_allocated_indices)
       IN  \E remaining_df \in RemainingFrames(master_df, original_index,
                                  adjusted_targets, constrained_categories,
                                  features, used, remaining_needed) :
              /\ used_indices' = used \cup remaining_df.index
              /\ panels' = Append(panels, [pre |-> pre_allocated_indices,
                                           rem |-> remaining_df.rows])
              /\ remaining_targets' =
                    IF remaining_needed > 0
                    THEN RemainingTargets(adjusted_targets,
                                          constrained_categories, features)
                    ELSE remaining_targets
    \* the summary loop reads panel[feature] for every listed feature: a
    \* feature that is not a column raises KeyError
    /\ pc' = IF \E f \in Range(features) : f \notin Columns THEN "raised"
             ELSE IF Len(panels) + 1 = num_panels THEN "created" ELSE "panels"
    /\ UNCHANGED <<inputVars, adjusted_targets, allocation_info,
                   pre_allocated_by_panel, constrained_categories, pre_queue,
                   cat_indices, chunks, dist_info, splitVars, nwayVars, sampleVars,
                   all_sets, wizardVars>>

\* create_panels called on its own
NextCreate ==
    \/ CreatePanelsBegin
    \/ PreAllocate
    \/ BuildPanel

SpecCreate == InitCreate /\ [][NextCreate]_vars

\* an index whose labels are no row position: the frame is a filtered part
\* of a larger one
ShiftedIndex(df) == [r \in Rows(df) |-> Len(df) + r]

\* create_panels on a master frame that carries an index of its own
InitIndexed ==
    /\ features = <<"G">>
    /\ master_df \in Datasets(CellsFor(features), MaxRecords)
    /\ original_index \in IndexChoices(master_df) \cup {ShiftedIndex(master_df)}
    /\ target_dict \in TargetChoices(features)
    /\ validate_target_proportions(target_dict)
    /\ num_panels \in 1..MaxPanels
    /\ panel_size \in 1..MaxPanelSize
    /\ InitRest
    /\ pc = "start"

SpecIndexed == InitIndexed /\ [][NextCreate]_vars

\* the returned panel: its rows re-indexed by original_index
PanelIds(p) == {original_index[r] : r \in p.pre \cup p.rem}

\* len(panel): the pre-allocated frame and the sampled frame concatenated
PanelLen(p) == Cardinality(p.pre) + Cardinality(p.rem)

----------------------------------------------------------------------------
(* split_panel_into_two, split_all_panels (src/src/paneling.py)             *)

\* the rows of a returned panel, one entry per row of the concatenation
PanelEntries(p) == {<<"pre", r>> : r \in p.pre} \cup {<<"rem", r>> : r \in p.rem}

\* strata_cols = [f for f in features if f in panel_copy.columns]
RECURSIVE StrataCols(_)
StrataCols(fs) ==
    IF fs = <<>> THEN <<>>
    ELSE (IF Head(fs) \in Columns THEN <<Head(fs)>> ELSE <<>>)
            \o StrataCols(Tail(fs))

\* the stratification key of a row: its values for the strata columns
StratumKey(df, r, cols) == [k \in 1..Len(cols) |-> df[r][cols[k]]]

\* the ways to send the first half (len // 2) of every shuffled stratum to
\* set A; the rest goes to set B
RECURSIVE FirstHalves(_)
FirstHalves(strata) ==
    IF strata = {} THEN {{}}
    ELSE LET st == CHOOSE x \in strata : TRUE
         IN  {a \cup b : a \in SubsetsOfSize(st, Cardinality(st) \div 2),
                         b \in FirstHalves(strata \ {st})}

\* the (Set A, Set B) pairs split_panel_into_two can return, as the sets of
\* index labels of the two frames
split_panel_into_two(df, oidx, p, fs) ==
    LET entries == PanelEntries(p)
        cols == StrataCols(fs)
        keyOf(e) == IF Len(cols) > 0 THEN StratumKey(df, e[2], cols) ELSE <<>>
        strata == {{e \in entries : keyOf(e) = keyOf(d)} : d \in entries}
        ids(es) == {oidx[e[2]] : e \in es}
    IN  { [set_a |-> ids(a), set_b |-> ids(entries \ a)] :
            a \in FirstHalves(strata) }

RECURSIVE split_all_panels(_, _, _, _)
\* the lists of splits split_all_panels can return
split_all_panels(df, oidx, ps, fs) ==
    IF ps = <<>> THEN {<<>>}
    ELSE {<<h>> \o t : h \in split_panel_into_two(df, oidx, Head(ps), fs),
                      t \in split_all_panels(df, oidx, Tail(ps), fs)}

SplitAllPanels ==
    /\ pc = "created"
    /\ panel_splits' \in split_all_panels(master_df, original_index, panels,
                                          features)
    /\ pc' = "split"
    /\ UNCHANGED <<inputVars, allocVars, overlap_results, nwayVars,
                   sampleVars, all_sets, wizardVars>>

----------------------------------------------------------------------------
(* check_overlap_between_sets (src/src/utils.py)                           *)

\* the list the caller builds: (name, frame) for Set A and Set B of every
\* panel, in order; a frame is given by the list of its index labels
AllSets(splits) ==
    [k \in 1..(2 * Len(splits)) |->
        IF k % 2 = 1
        THEN [name |-> <<"Panel", (k + 1) \div 2, "Set A">>,
              index |-> SetToSeq(splits[(k + 1) \div 2].set_a)]
        ELSE [name |-> <<"Panel", k \div 2, "Set B">>,
              index |-> SetToSeq(splits[k \div 2].set_b)]]

\* (variant: the overlap is counted over the rows of the first frame, so a
\* label that the frame holds twice counts twice)
PairResult_countRows(set_list, i, j) ==
    [set_1 |-> set_list[i].name,
     set_2 |-> set_list[j].name,
     overlap_count |->
        Cardinality({r \in DOMAIN set_list[i].index :
                        set_list[i].index[r] \in Range(set_list[j].index)})]

\* the result appended for the pair (i, j): len(set(df_i.index) & set(df_j.index))
PairResult(set_list, i, j) ==
    [set_1 |-> set_list[i].name,
     set_2 |-> set_list[j].name,
     overlap_count |->
        Cardinality(Range(set_list[i].index) \cap Range(set_list[j].index))]

RECURSIVE OverlapInnerLoop(_, _, _)
\* for j in range(i + 1, len(set_list))
OverlapInnerLoop(set_list, i, j) ==
    IF j > Len(set_list) THEN <<>>
    ELSE <<PairResult(set_list, i, j)>> \o OverlapInnerLoop(set_list, i, j + 1)

RECURSIVE OverlapOuterLoop(_, _)
\* for i in range(len(set_list))
OverlapOuterLoop(set_list, i) ==
    IF i > Len(set_list) THEN <<>>
    ELSE OverlapInnerLoop(set_list, i, i + 1) \o OverlapOuterLoop(set_list, i + 1)

check_overlap_between_sets(set_list) ==
    LET results == OverlapOuterLoop(set_list, 1)
    IN  [has_overlap |-> \E k \in DOMAIN results : results[k].overlap_count > 0,
         results |-> results]

CheckOverlap ==
    /\ pc = "split"
    /\ overlap_results' = check_overlap_between_sets(AllSets(panel_splits))
    /\ pc' = "verified"
    /\ UNCHANGED <<inputVars, allocVars, panel_splits, nwayVars,
                   sampleVars, all_sets, wizardVars>>

\* check_overlap_between_sets called on its own, on any list of named frames

\* the index label lists of the frames: labels 1..MaxLabels, up to MaxLabels
\* rows, a label possibly on several rows
IndexLists ==
    UNION {DatasetsOfLen([k \in 1..MaxLabels |-> k], n) : n \in 0..MaxLabels}

\* the n frames of a list, named by their position
NamedSets(ix) ==
    [k \in DOMAIN ix |-> [name |-> <<"Set", k>>, index |-> ix[k]]]

InitOverlap ==
    /\ \E n \in 0..MaxSetList :
          \E ix \in [1..n -> IndexLists] : all_sets = NamedSets(ix)
    /\ overlap_results = NoValue
    /\ pc = "sets"
    /\ master_df = <<>>
    /\ original_index = <<>>
    /\ target_dict = NoValue
    /\ features = <<>>
    /\ num_panels = 0
    /\ panel_size = 0
    /\ InitRestAlloc
    /\ panel_splits = <<>>
    /\ InitRestNway
    /\ InitRestSample
    /\ InitRestWizard

CheckOverlapBetweenSets ==
    /\ pc = "sets"
    /\ overlap_results' = check_overlap_between_sets(all_sets)
    /\ pc' = "checked"
    /\ UNCHANGED <<inputVars, allocVars, panel_splits, nwayVars,
                   sampleVars, all_sets, wizardVars>>

NextOverlap == CheckOverlapBetweenSets

SpecOverlap == InitOverlap /\ [][NextOverlap]_vars

----------------------------------------------------------------------------
(* The pipeline: create_panels, split_all_panels, the overlap check.       *)

Next ==
    \/ CreatePanelsBegin
    \/ PreAllocate
    \/ BuildPanel
    \/ SplitAllPanels
    \/ CheckOverlap

Spec == InitCreate /\ [][Next]_vars

----------------------------------------------------------------------------
(* split_panel_into_n_sets (src/main.py)                                   *)

\* the panel's index: the labels its rows kept from the master frame
PanelIndex(pn) == DOMAIN pn

\* a row's combination of feature values
Combination(pn, r, fs) == [k \in 1..Len(fs) |-> pn[r][fs[k]]]

\* panel[features].drop_duplicates(): the combinations in order of first
\* appearance
RECURSIVE Combinations(_, _, _)
Combinations(pn, fs, r) ==
    IF r > Len(pn) THEN <<>>
    ELSE (IF \E q \in 1..(r - 1) : Combination(pn, q, fs) = Combination(pn, r, fs)
          THEN <<>> ELSE <<Combination(pn, r, fs)>>)
            \o Combinations(pn, fs, r + 1)

\* panel[mask].index
ComboIndices(pn, fs, combo) ==
    {r \in PanelIndex(pn) : Combination(pn, r, fs) = combo}

\* (variant: equal shares of len // num_sets, the remainder is dropped)
RoundRobin_dropRemainder(acc, combo_indices, k) ==
    LET share == Len(combo_indices) \div k
    IN  [j \in 1..k |->
            acc[j] \o [m \in 1..share |-> combo_indices[(j - 1) * share + m]]]

\* (variant: contiguous shares of len // num_sets, the last set takes the rest)
RoundRobin_lastTakesRest(acc, combo_indices, k) ==
    LET n == Len(combo_indices)
        share == n \div k
    IN  [j \in 1..k |->
            acc[j] \o [m \in 1..(IF j = k THEN n - (k - 1) * share ELSE share) |->
                         combo_indices[(j - 1) * share + m]]]

\* (variant: the cycle is one set short, the last set is never dealt to)
RoundRobin_skipLast(acc, combo_indices, k) ==
    LET n == Len(combo_indices)
        count(j) == IF j <= n /\ j < k THEN (n - j) \div (k - 1) + 1 ELSE 0
    IN  [j \in 1..k |->
            acc[j] \o [m \in 1..count(j) |-> combo_indices[(m - 1) * (k - 1) + j]]]

\* (variant: the deal starts at the last set and runs backwards)
RoundRobin_backwards(acc, combo_indices, k) ==
    LET n == Len(combo_indices)
        count(j) == IF k + 1 - j <= n THEN (n - (k + 1 - j)) \div k + 1 ELSE 0
    IN  [j \in 1..k |->
            acc[j] \o [m \in 1..count(j) |->
                         combo_indices[(m - 1) * k + (k + 1 - j)]]]

\* for i, idx in enumerate(combo_indices): sets[i % num_sets].append(idx)
RoundRobin(acc, combo_indices, k) ==
    LET n == Len(combo_indices)
        count(j) == IF j <= n THEN (n - j) \div k + 1 ELSE 0
    IN  [j \in 1..k |->
            acc[j] \o [m \in 1..count(j) |-> combo_indices[(m - 1) * k + j]]]

RECURSIVE DistributeCombos(_, _, _, _, _)
\* the loop over the combinations: shuffle each one's indices, deal them out
DistributeCombos(pn, fs, combos, acc, k) ==
    IF combos = <<>> THEN {acc}
    ELSE UNION { DistributeCombos(pn, fs, Tail(combos),
                                  RoundRobin(acc, combo_indices, k), k)
                 : combo_indices \in Shuffles(ComboIndices(pn, fs, Head(combos))) }

\* the lists of index lists (one per set) split_panel_into_n_sets can build
split_panel_into_n_sets(pn, fs, k) ==
    DistributeCombos(pn, fs, Combinations(pn, fs, 1), [j \in 1..k |-> <<>>], k)

\* the feature lists of a split: every feature is a column of the panel
SplitFeatureLists == {fs \in FeatureLists : Range(fs) \subseteq Columns}

InitSplit ==
    /\ features \in SplitFeatureLists
    /\ panel \in Datasets(CellsFor(features), MaxPanelRows)
    /\ num_sets \in 2..MaxSets
    /\ sets = <<>>
    /\ rng_state = NoValue
    /\ pc = "panel"
    /\ master_df = <<>>
    /\ original_index = <<>>
    /\ target_dict = NoValue
    /\ num_panels = 0
    /\ panel_size = 0
    /\ InitRestAlloc
    /\ panel_splits = <<>>
    /\ overlap_results = NoValue
    /\ all_sets = <<>>
    /\ InitRestSample
    /\ InitRestWizard

SplitPanelIntoNSets ==
    /\ pc = "panel"
    /\ sets' \in split_panel_into_n_sets(panel, features, num_sets)
    /\ pc' = "sets"
    /\ UNCHANGED <<inputVars, allocVars, splitVars, panel, num_sets,
                   rng_state, sampleVars, all_sets, wizardVars>>

NextSplit == SplitPanelIntoNSets

SpecSplit == InitSplit /\ [][NextSplit]_vars

----------------------------------------------------------------------------
(* The adjuster called on its own.                                         *)

InitAdjust ==
    /\ InitInputs
    /\ InitRest
    /\ pc = "adjust"

AdjustTargets ==
    /\ pc = "adjust"
    /\ LET res == compute_adjusted_targets(master_df, target_dict, features,
                                           num_panels, panel_size)
       IN  /\ adjusted_targets' = res.targets
           /\ allocation_info' = res.info
    /\ pc' = "adjusted"
    /\ UNCHANGED <<inputVars, pre_allocated_by_panel, constrained_categories,
                   pre_queue, cat_indices, chunks, dist_info,
                   remaining_targets, used_indices,
                   panels, splitVars,
                   nwayVars, sampleVars, all_sets, wizardVars>>

NextAdjust == AdjustTargets

SpecAdjust == InitAdjust /\ [][NextAdjust]_vars

----------------------------------------------------------------------------
(* create_balanced_sample called on its own.                               *)

SampleFeatureLists ==
    {<<"G">>, <<"G", "Z">>, <<"G", "Z", "A">>, <<"G", "Z", "A", "B">>}

ATargets == { [P |-> 50, Q |-> 50] }

BTargets == { [U |-> 50, V |-> 50], [U |-> 100] }

\* the target specs offered with each feature list of the sampler
SampleTargetChoices(fs) ==
    IF Len(fs) <= 2 THEN TargetChoices(fs)
    ELSE {[f \in Range(fs) |->
             IF f = "G" THEN [F |-> 100]
             ELSE IF f = "Z" THEN t[1]
             ELSE IF f = "A" THEN t[2] ELSE t[3]] :
            t \in (IF Len(fs) = 3 THEN ZTargets ELSE {[N |-> 100]})
                     \X ATargets \X BTargets}

\* a target dict of hundredths as the proportions the sampler works with
AsProportions(td) ==
    [f \in DOMAIN td |-> [c \in DOMAIN td[f] |-> <<td[f][c], PropDen>>]]

InitSample ==
    /\ features \in SampleFeatureLists
    /\ master_df \in Datasets(CellsFor(features), MaxRecords)
    /\ original_index \in IndexChoices(master_df)
    /\ target_dict \in SampleTargetChoices(features)
    /\ sample_size \in 1..MaxPanelSize
    /\ exclude_indices \in SUBSET Range(original_index)
    /\ sampled_df = NoValue
    /\ pc = "sample"
    /\ num_panels = 0
    /\ panel_size = 0
    /\ InitRestAlloc
    /\ panel_splits = <<>>
    /\ overlap_results = NoValue
    /\ all_sets = <<>>
    /\ InitRestNway
    /\ InitRestWizard

CreateBalancedSample ==
    /\ pc = "sample"
    /\ sampled_df' \in create_balanced_sample(master_df, original_index,
                                               AsProportions(target_dict),
                                               features, sample_size,
                                               exclude_indices)
    /\ pc' = "sampled"
    /\ UNCHANGED <<inputVars, allocVars, splitVars, nwayVars, sample_size,
                   exclude_indices, all_sets, wizardVars>>

NextSample == CreateBalancedSample

SpecSample == InitSample /\ [][NextSample]_vars

----------------------------------------------------------------------------
(* The consolidated application (src/main.py): its own validator,          *)
(* availability check, adjuster, sampler and create_panels.  Its float     *)
(* products and quotients are computed exactly: for the sizes and targets  *)
(* of the model int() of the binary64 value is the floor of the exact one. *)

\* abs(total - 1.0) > 0.01 in binary64: a total of 0.99 or of 1.01 gives a
\* difference of 0.010000000000000009, which is greater than 0.01, so only
\* the totals strictly between the two limits are valid
main_validate_target_proportions(td) ==
    \A f \in DOMAIN td :
        LET total == SumOver(td[f], DOMAIN td[f])
        IN  99 * PropDen < 100 * total /\ 100 * total < 101 * PropDen

\* is_sufficient of src/main.py's check_availability:
\* if total_needed > total_available: return False
main_check_availability(df, td, np, ps) == ~(np * ps > Len(df))

\* (variant: the total is not compared with the dataset)
check_availability_noTotal(df, td, np, ps) == TRUE

\* is_sufficient of src/src/utils.py's check_availability:
\* if total_available < total_needed: return False
check_availability(df, td, np, ps) == ~(Len(df) < np * ps)

\* the keys of a target dict in insertion order: the wizard inserts the
\* categories of a column in sorted order
CategoryOrder == <<"F", "M", "X", "N", "S", "P", "Q", "U", "V">>

Keys(tf) == SelectSeq(CategoryOrder, LAMBDA c : c \in DOMAIN tf)

\* one feature of src/main.py's compute_adjusted_targets
MainAdjustFeature(df, tf, f, total_needed) ==
    LET categories == Keys(tf)
        ix == 1..Len(categories)
        availabilities == [i \in ix |-> CountOf(df, f, categories[i])]
        needs_adjustment ==
            \E i \in ix : availabilities[i] * PropDen < total_needed * tf[categories[i]]
        target_counts == [i \in ix |-> (total_needed * tf[categories[i]]) \div PropDen]
        first == [i \in ix |-> Min(target_counts[i], availabilities[i])]
        deficit == total_needed - SumOver(first, ix)
        surplus_indices == {i \in ix : availabilities[i] > first[i]}
        capacity == [i \in ix |-> availabilities[i] - first[i]]
        total_surplus == SumOver(capacity, surplus_indices)
        share == [i \in ix |->
                    IF deficit > 0 /\ i \in surplus_indices
                    THEN first[i] + (deficit * capacity[i]) \div total_surplus
                    ELSE first[i]]
        remaining == total_needed - SumOver(share, ix)
        left == [i \in ix |-> availabilities[i] - share[i]]
        \* position of i in sorted(surplus_indices, key=left, reverse=True)
        before == [i \in ix |->
                     Cardinality({j \in surplus_indices :
                                    \/ left[j] > left[i]
                                    \/ left[j] = left[i] /\ j < i})]
        allocated == [i \in ix |->
                        IF deficit > 0 /\ i \in surplus_indices /\ before[i] < remaining
                        THEN share[i] + 1 ELSE share[i]]
        pos(c) == CHOOSE i \in ix : categories[i] = c
    IN  [needs_adjustment |-> needs_adjustment,
         adjusted |-> [c \in DOMAIN tf |->
                         IF needs_adjustment
                         THEN <<allocated[pos(c)], total_needed>>
                         ELSE <<tf[c], PropDen>>]]

\* working_targets of src/main.py's create_panels: the adjusted targets when
\* some feature needed an adjustment, else the target dict
MainWorkingTargets(df, td, fs, total_needed) ==
    LET res == [f \in Range(fs) |-> MainAdjustFeature(df, td[f], f, total_needed)]
    IN  IF \E f \in Range(fs) : res[f].needs_adjustment
        THEN [f \in Range(fs) |-> res[f].adjusted]
        ELSE [f \in DOMAIN td |-> [c \in DOMAIN td[f] |-> <<td[f][c], PropDen>>]]

RECURSIVE ProportionOf(_, _, _, _)
\* proportion *= target_dict[feature].get(value, 0), from feature k on
ProportionOf(targets, fs, combo, k) ==
    IF k > Len(fs) THEN <<1, 1>>
    ELSE LET p == IF combo[k] \in DOMAIN targets[fs[k]]
                  THEN targets[fs[k]][combo[k]] ELSE <<0, 1>>
             q == ProportionOf(targets, fs, combo, k + 1)
         IN  <<p[1] * q[1], p[2] * q[2]>>

RECURSIVE MainDraws(_, _, _, _, _, _)
\* the loop over the combinations: int(sample_size * proportion) rows of each
\* one, or all of its rows when it has fewer
MainDraws(df, pool, targets, fs, size, combos) ==
    IF combos = <<>> THEN {{}}
    ELSE LET combo == Head(combos)
             prop == ProportionOf(targets, fs, combo, 1)
             target_count == (size * prop[1]) \div prop[2]
             available_indices ==
                 {r \in pool : [k \in 1..Len(fs) |-> df[r][fs[k]]] = combo}
         IN  {selected \cup rest :
                 selected \in Draws(available_indices, target_count),
                 rest \in MainDraws(df, pool, targets, fs, size, Tail(combos))}

\* src/main.py's create_balanced_sample on the rows `pool` of df
main_create_balanced_sample(df, pool, targets, fs, size) ==
    MainDraws(df, pool, targets, fs, size,
              SetToSeq({[k \in 1..Len(fs) |-> df[r][fs[k]]] : r \in pool}))

RECURSIVE MainPanelLoop(_, _, _, _, _, _)
\* the panel loop: sample, then remaining_sample.drop(panel.index)
MainPanelLoop(df, remaining_sample, targets, fs, left, size) ==
    IF left = 0 THEN {<<>>}
    ELSE UNION { {<<pn>> \o more :
                    more \in MainPanelLoop(df, remaining_sample \ pn, targets,
                                           fs, left - 1, size)}
                 : pn \in main_create_balanced_sample(df, remaining_sample,
                                                      targets, fs, size) }

\* the lists of panels (row sets) src/main.py's create_panels can return
main_create_panels(df, td, fs, np, ps) ==
    MainPanelLoop(df, Rows(df), MainWorkingTargets(df, td, fs, np * ps),
                  fs, np, ps)

----------------------------------------------------------------------------
(* The wizard: main() of src/main.py and of src/src/main.py, one action    *)
(* per run of a page.  The two scripts differ in the functions they call.  *)

Consolidated == "src/main.py"
Packaged == "src/src/main.py"
Apps == {Consolidated, Packaged}

\* the rows an uploaded file is built from; the scaled-down datasets stand
\* for files that passed validate_uploaded_file
WizardCells ==
    << [G |-> "F", Z |-> "N", A |-> "P", B |-> "U"],
       [G |-> "M", Z |-> "N", A |-> "P", B |-> "U"] >>

\* files of two rows or more; the two values of the column are
\* interchangeable, so only the files where "F" is at least as frequent
FilesUpTo(maxRows) ==
    {df \in Datasets(WizardCells, maxRows) :
        Len(df) >= 2 /\ CountOf(df, "G", "F") >= CountOf(df, "G", "M")}

WizardDatasets == FilesUpTo(MaxWizardRows)

\* the columns the multiselect of page 2 offers stratification on
WizardFeatureLists == {<<"G">>}

\* the values typed into the number inputs of page 2, in hundredths
WizardProportions == {49, 50, 51, 100}

\* target_dict as page 2 builds it: for every selected column one number
\* input per value of the column in the dataset
TargetDictsOver(props, df, fs) ==
    {td \in [Range(fs) -> UNION {[cats -> props] : cats \in SUBSET {"F", "M"}}] :
        \A f \in Range(fs) : DOMAIN td[f] = {df[r][f] : r \in Rows(df)}}

WizardTargetDicts(df, fs) ==
    [Range(fs) -> UNION {[cats -> WizardProportions] :
                           cats \in SUBSET {"F", "M"}}]

PageTargetDicts(df, fs) == TargetDictsOver(WizardProportions, df, fs)

\* the validator the running script imports or defines
ValidateTargets(a, td) ==
    IF a = Consolidated THEN main_validate_target_proportions(td)
    ELSE validate_target_proportions(td)

\* the availability check the running script imports or defines
CheckAvailability(a, df, td, np, ps) ==
    IF a = Consolidated THEN main_check_availability(df, td, np, ps)
    ELSE check_availability(df, td, np, ps)

\* None in a session slot that holds a frame or a list when it is set (what
\* the wizard stores there is never empty), and in a local of main() that
\* the running page does not assign
None == <<>>

\* the locals of main() a page run does not assign
NoPanelConfig ==
    /\ master_df' = <<>>
    /\ original_index' = <<>>
    /\ num_panels' = 0
    /\ panel_size' = 0
    /\ is_sufficient' = NoValue


\* initialize_session_state
InitWizard ==
    /\ app \in Apps
    /\ session_state = [df |-> None, target_dict |-> <<>>,
                        selected_features |-> None, panels |-> None,
                        panel_splits |-> None]
    /\ pc = "page"
    /\ master_df = <<>>
    /\ original_index = <<>>
    /\ target_dict = NoValue
    /\ features = <<>>
    /\ num_panels = 0
    /\ panel_size = 0
    /\ is_sufficient = NoValue
    /\ is_valid = NoValue
    /\ exported_files = {}
    /\ InitRestAlloc
    /\ panel_splits = <<>>
    /\ overlap_results = None
    /\ all_sets = <<>>
    /\ InitRestNway
    /\ InitRestSample

\* page 1: one of the files is uploaded and passes validate_uploaded_file
UploadFrom(files) ==
    /\ pc = "page"
    /\ \E df \in files :
          session_state' = [session_state EXCEPT !.df = df]
    /\ NoPanelConfig
    /\ target_dict' = NoValue
    /\ features' = <<>>
    /\ is_valid' = NoValue
    /\ overlap_results' = None
    /\ exported_files' = {}
    /\ UNCHANGED <<pc, app, allocVars, panel_splits, nwayVars, sampleVars, all_sets>>

UploadFile == UploadFrom(WizardDatasets)

\* page 2: "Validate and Save Configuration" is clicked with number inputs
\* holding values of props
SaveWith(props) ==
    /\ pc = "page"
    /\ session_state.df # None
    /\ \E selected_features \in WizardFeatureLists :
         \E td \in TargetDictsOver(props, session_state.df, selected_features) :
            /\ target_dict' = td
            /\ features' = selected_features
            /\ is_valid' = ValidateTargets(app, td)
            /\ session_state' =
                 IF is_valid'
                 THEN [session_state EXCEPT !.target_dict = td,
                                            !.selected_features = selected_features]
                 ELSE session_state
    /\ NoPanelConfig
    /\ overlap_results' = None
    /\ exported_files' = {}
    /\ UNCHANGED <<pc, app, allocVars, panel_splits, nwayVars, sampleVars, all_sets>>

SaveConfiguration == SaveWith(WizardProportions)

\* page 3 up to the availability check, for the widget values np and ps
PanelConfiguration(np, ps) ==
    /\ pc = "page"
    /\ session_state.df # None
    /\ DOMAIN session_state.target_dict # {}
    /\ master_df' = session_state.df
    /\ original_index' = RangeIndex(session_state.df)
    /\ target_dict' = session_state.target_dict
    /\ features' = session_state.selected_features
    /\ num_panels' = np
    /\ panel_size' = ps
    /\ is_sufficient' = CheckAvailability(app, session_state.df,
                                          session_state.target_dict, np, ps)
    /\ is_valid' = NoValue

\* page 3: the check fails, the error is shown and the script returns
AvailabilityFailsFor(maxPanels, maxSize) ==
    /\ \E np \in 1..maxPanels : \E ps \in 1..maxSize :
          PanelConfiguration(np, ps)
    /\ ~is_sufficient'
    /\ overlap_results' = None
    /\ exported_files' = {}
    /\ UNCHANGED <<pc, app, session_state, allocVars, panel_splits, nwayVars,
                   sampleVars, all_sets>>

AvailabilityFails == AvailabilityFailsFor(MaxPanels, MaxPanelSize)

\* page 3: the check passes and the button is not clicked
AvailabilityShownFor(maxPanels, maxSize) ==
    /\ \E np \in 1..maxPanels : \E ps \in 1..maxSize :
          PanelConfiguration(np, ps)
    /\ is_sufficient'
    /\ overlap_results' = None
    /\ exported_files' = {}
    /\ UNCHANGED <<pc, app, session_state, allocVars, panel_splits, nwayVars,
                   sampleVars, all_sets>>

AvailabilityShown == AvailabilityShownFor(MaxPanels, MaxPanelSize)

\* page 3: the check passes and "Create Panels" is clicked: create_panels
\* is called
ClickCreatePanelsFor(maxPanels, maxSize) ==
    /\ \E np \in 1..maxPanels : \E ps \in 1..maxSize :
          PanelConfiguration(np, ps)
    /\ is_sufficient'
    /\ pc' = IF app = Consolidated THEN "main_start" ELSE "start"
    /\ overlap_results' = None
    /\ exported_files' = {}
    /\ UNCHANGED <<app, session_state, allocVars, panel_splits, nwayVars,
                   sampleVars, all_sets>>

ClickCreatePanels == ClickCreatePanelsFor(MaxPanels, MaxPanelSize)

\* create_panels of src/main.py, from its call to its return
CreatePanelsMain ==
    /\ pc = "main_start"
    /\ \E ps \in main_create_panels(master_df, target_dict, features,
                                    num_panels, panel_size) :
          panels' = [k \in 1..num_panels |-> [pre |-> {}, rem |-> ps[k]]]
    /\ pc' = "created"
    /\ UNCHANGED <<inputVars, adjusted_targets, allocation_info,
                   pre_allocated_by_panel, constrained_categories, pre_queue,
                   cat_indices, chunks, dist_info,
                   remaining_targets, used_indices, splitVars,
                   nwayVars, sampleVars, all_sets, wizardVars>>

\* a returned panel as the frame it is: the pre-allocated rows, then the
\* sampled ones, each with its original_index
PanelFrame(df, oidx, p) ==
    LET order == IndexList(p.pre) \o IndexList(p.rem)
    IN  [m \in 1..Len(order) |->
            [original_index |-> oidx[order[m]]] @@ df[order[m]]]

\* create_panels has returned: st.session_state.panels = panels
StorePanels ==
    /\ pc = "created"
    /\ session_state' =
          [session_state EXCEPT
              !.panels = [k \in DOMAIN panels |->
                            PanelFrame(master_df, original_index, panels[k])]]
    /\ pc' = "page"
    /\ adjusted_targets' = NoValue
    /\ allocation_info' = NoValue
    /\ pre_allocated_by_panel' = NoValue
    /\ constrained_categories' = NoValue
    /\ pre_queue' = <<>>
    /\ cat_indices' = <<>>
    /\ chunks' = <<>>
    /\ dist_info' = NoValue
    /\ remaining_targets' = <<>>
    /\ used_indices' = {}
    /\ panels' = <<>>
    /\ UNCHANGED <<inputVars, app, is_sufficient, is_valid, exported_files,
                   splitVars,
                   nwayVars, sampleVars, all_sets>>

NextWizard ==
    \/ UploadFile
    \/ SaveConfiguration
    \/ AvailabilityFails
    \/ AvailabilityShown
    \/ ClickCreatePanels
    \/ CreatePanelsBegin
    \/ PreAllocate
    \/ BuildPanel
    \/ CreatePanelsMain
    \/ StorePanels

SpecWizard == InitWizard /\ [][NextWizard]_vars

----------------------------------------------------------------------------
(* The wizard with its pages 4 and 5, on small files.                      *)

\* the rows of a stored panel that share a row's values of the columns
FrameStrata(pn, cols) ==
    {{r \in DOMAIN pn : StratumKey(pn, r, cols) = StratumKey(pn, q, cols)} :
        q \in DOMAIN pn}

\* the index labels of rows of a stored panel
FrameIds(pn, rs) == {pn[r].original_index : r \in rs}

\* split_panel_into_two of paneling.py on a stored panel: the index labels
\* of Set A and of Set B
FrameSplitTwo(pn, fs) ==
    {<<FrameIds(pn, a), FrameIds(pn, (DOMAIN pn) \ a)>> :
        a \in FirstHalves(FrameStrata(pn, StrataCols(fs)))}

\* split_panel_into_n_sets of src/main.py on a stored panel: the index
\* labels of each set
FrameSplitN(pn, fs, k) ==
    {[j \in 1..k |-> FrameIds(pn, Range(ss[j]))] :
        ss \in split_panel_into_n_sets(pn, fs, k)}

RECURSIVE SplitsOfFrames(_, _, _, _)
\* split_all_panels of the running script on the stored panels
SplitsOfFrames(a, frames, fs, k) ==
    IF frames = <<>> THEN {<<>>}
    ELSE {<<h>> \o t :
            h \in (IF a = Consolidated THEN FrameSplitN(Head(frames), fs, k)
                   ELSE FrameSplitTwo(Head(frames), fs)),
            t \in SplitsOfFrames(a, Tail(frames), fs, k)}

\* the locals of main() that pages 4 and 5 do not assign
NoConfiguration ==
    /\ NoPanelConfig
    /\ target_dict' = NoValue
    /\ features' = <<>>
    /\ is_valid' = NoValue

\* page 4: `if st.session_state.panels is None: return`
PanelsStored(ss) == ss.panels # None

\* (variant: page 5 does not look at the stored splits)
SplitsStored_unguarded(ss) == TRUE

\* page 5: `if st.session_state.panel_splits is None: return`
SplitsStored(ss) == ss.panel_splits # None

\* page 4: "Split All Panels" is clicked with the widget value k
ClickSplitAllPanels ==
    /\ pc = "page"
    /\ PanelsStored(session_state)
    /\ \E k \in (IF app = Consolidated THEN 2..MaxFlowSets ELSE {2}) :
         \E splits \in SplitsOfFrames(app, session_state.panels,
                                      session_state.selected_features, k) :
            session_state' = [session_state EXCEPT !.panel_splits = splits]
    /\ NoConfiguration
    /\ overlap_results' = None
    /\ exported_files' = {}
    /\ UNCHANGED <<pc, app, allocVars, panel_splits, nwayVars,
                   sampleVars, all_sets>>

RECURSIVE FlattenSplits(_, _)
\* all_sets as page 5 builds it: (name, frame) for every set of every panel;
\* a frame is given by the list of its index labels
FlattenSplits(splits, i) ==
    IF i > Len(splits) THEN <<>>
    ELSE [j \in DOMAIN splits[i] |->
             [name |-> <<"Panel", i, "Set", j>>,
              index |-> SetToSeq(splits[i][j])]]
            \o FlattenSplits(splits, i + 1)

\* page 5: "Check for Overlaps" is clicked
ClickCheckOverlaps ==
    /\ pc = "page"
    /\ SplitsStored(session_state)
    /\ overlap_results' =
          check_overlap_between_sets(FlattenSplits(session_state.panel_splits, 1))
    /\ NoConfiguration
    /\ exported_files' = {}
    /\ UNCHANGED <<pc, app, session_state, allocVars,
                   panel_splits, nwayVars, sampleVars, all_sets>>

\* exported_files: the files a click on the export button writes, one per
\* set of every panel
ExportedNames(splits) ==
    UNION {{<<"panel", i, "set", j>> : j \in DOMAIN splits[i]} :
              i \in DOMAIN splits}

\* page 5: "Export All to CSV" is clicked
ClickExport ==
    /\ pc = "page"
    /\ SplitsStored(session_state)
    /\ exported_files' = ExportedNames(session_state.panel_splits)
    /\ NoConfiguration
    /\ overlap_results' = None
    /\ UNCHANGED <<pc, app, session_state, allocVars, panel_splits, nwayVars,
                   sampleVars, all_sets>>

\* the values typed into the number inputs of page 2, in hundredths
FlowProportions == {50, 100}

UploadSmallFile == UploadFrom(FilesUpTo(MaxFlowRows))

SaveSmallConfiguration == SaveWith(FlowProportions)

SmallAvailabilityFails == AvailabilityFailsFor(MaxFlowPanels, MaxFlowPanelSize)

SmallAvailabilityShown == AvailabilityShownFor(MaxFlowPanels, MaxFlowPanelSize)

ClickCreateSmallPanels == ClickCreatePanelsFor(MaxFlowPanels, MaxFlowPanelSize)

NextFlow ==
    \/ UploadSmallFile
    \/ SaveSmallConfiguration
    \/ SmallAvailabilityFails
    \/ SmallAvailabilityShown
    \/ ClickCreateSmallPanels
    \/ CreatePanelsBegin
    \/ PreAllocate
    \/ BuildPanel
    \/ CreatePanelsMain
    \/ StorePanels
    \/ ClickSplitAllPanels
    \/ ClickCheckOverlaps
    \/ ClickExport

SpecFlow == InitWizard /\ [][NextFlow]_vars

----------------------------------------------------------------------------
(* The splitting functions called panel by panel, with numpy's global      *)
(* generator as state: np.random.seed sets it, every shuffle reads and     *)
(* advances it.  The generator is a counter of RngMod states; the order a  *)
(* shuffle leaves a list in is a function of the list and the state.       *)

\* the default of random_state
random_state == 42

\* (variant: the call does not reseed the generator)
np_random_seed_keep(state, seed) == state

\* np.random.seed(seed)
np_random_seed(state, seed) == seed % RngMod

\* the generator's state after one shuffle
RngNext(state) == (state + 1) % RngMod

RECURSIVE Factorial(_)
Factorial(n) == IF n <= 1 THEN 1 ELSE n * Factorial(n - 1)

\* the list without its i-th element
WithoutNth(list, i) ==
    [m \in 1..(Len(list) - 1) |-> IF m < i THEN list[m] ELSE list[m + 1]]

RECURSIVE NthPermutation(_, _)
\* the k-th order of the list, k in 0..(Len(list)! - 1)
NthPermutation(list, k) ==
    IF list = <<>> THEN <<>>
    ELSE LET f == Factorial(Len(list) - 1)
             i == (k \div f) + 1
         IN  <<list[i]>> \o NthPermutation(WithoutNth(list, i), k % f)

\* np.random.shuffle(list) with the generator in `state`
Shuffled(list, state) ==
    NthPermutation(list, state % Factorial(Len(list)))

RECURSIVE SeededDistribute(_, _, _, _, _, _)
\* the loop of split_panel_into_n_sets from generator state `state`
SeededDistribute(pn, fs, combos, acc, k, state) ==
    IF combos = <<>> THEN [sets |-> acc, rng |-> state]
    ELSE SeededDistribute(pn, fs, Tail(combos),
            RoundRobin(acc,
                       Shuffled(IndexList(ComboIndices(pn, fs, Head(combos))),
                                state),
                       k),
            k, RngNext(state))

RECURSIVE SeededHalves(_, _, _, _, _)
\* the loop of split_panel_into_two: the first half (len // 2) of each
\* shuffled stratum goes to set A, the rest to set B
SeededHalves(pn, fs, strata, acc, state) ==
    IF strata = <<>> THEN [sets |-> acc, rng |-> state]
    ELSE LET stratum_indices ==
                 Shuffled(IndexList(ComboIndices(pn, fs, Head(strata))), state)
             mid_point == Len(stratum_indices) \div 2
         IN  SeededHalves(pn, fs, Tail(strata),
                 <<acc[1] \o SubSeq(stratum_indices, 1, mid_point),
                   acc[2] \o SubSeq(stratum_indices, mid_point + 1,
                                    Len(stratum_indices))>>,
                 RngNext(state))

\* one call of the application's splitting function after its seed call left
\* the generator in `state`
SeededSplit(a, pn, fs, k, state) ==
    IF a = Consolidated
    THEN SeededDistribute(pn, fs, Combinations(pn, fs, 1),
                          [j \in 1..k |-> <<>>], k, state)
    ELSE SeededHalves(pn, StrataCols(fs), Combinations(pn, StrataCols(fs), 1),
                      <<<<>>, <<>>>>, state)

\* the seed split_all_panels passes for panel number no (1-based):
\* enumerate(panels) in src/main.py, enumerate(panels, 1) in paneling.py
SeedOfPanel(a, no) ==
    IF a = Consolidated THEN random_state + (no - 1) ELSE random_state + no

\* the lists of panels handed to split_all_panels: panels over the rows the
\* wizard's files are built from
PanelLists ==
    LET frames == Datasets(WizardCells, MaxPanelSize)
    IN  UNION {[1..n -> frames] : n \in 1..MaxPanels}

InitSplitAll ==
    /\ app \in Apps
    /\ features = <<"G">>
    /\ panels \in PanelLists
    /\ num_sets \in (IF app = Consolidated THEN 2..MaxSets ELSE {2})
    /\ panel_splits = <<>>
    /\ rng_state = RngMod - 1
    /\ pc = "split_all"
    /\ master_df = <<>>
    /\ original_index = <<>>
    /\ target_dict = NoValue
    /\ num_panels = 0
    /\ panel_size = 0
    /\ adjusted_targets = NoValue
    /\ allocation_info = NoValue
    /\ pre_allocated_by_panel = NoValue
    /\ constrained_categories = NoValue
    /\ pre_queue = <<>>
    /\ cat_indices = <<>>
    /\ chunks = <<>>
    /\ dist_info = NoValue
    /\ remaining_targets = <<>>
    /\ used_indices = {}
    /\ overlap_results = NoValue
    /\ all_sets = <<>>
    /\ panel = <<>>
    /\ sets = <<>>
    /\ InitRestSample
    /\ session_state = NoValue
    /\ is_sufficient = NoValue
    /\ is_valid = NoValue
    /\ exported_files = {}

\* the splitting function called for panel number no
SplitOnePanel(no) ==
    /\ pc = "split_all"
    /\ no \in DOMAIN panels
    /\ no \notin DOMAIN panel_splits
    /\ LET seeded == np_random_seed(rng_state, SeedOfPanel(app, no))
           res == SeededSplit(app, panels[no], features, num_sets, seeded)
       IN  /\ panel_splits' = (no :> res.sets) @@ panel_splits
           /\ rng_state' = res.rng
    /\ pc' = IF DOMAIN panel_splits' = DOMAIN panels THEN "all_split"
             ELSE "split_all"
    /\ UNCHANGED <<inputVars, adjusted_targets, allocation_info,
                   pre_allocated_by_panel, constrained_categories, pre_queue,
                   cat_indices, chunks, dist_info, remaining_targets,
                   used_indices, panels, overlap_results, panel, num_sets,
                   sets, sampleVars, all_sets, wizardVars>>

NextSplitAll == \E no \in 1..MaxPanels : SplitOnePanel(no)

SpecSplitAll == InitSplitAll /\ [][NextSplitAll]_vars

----------------------------------------------------------------------------
(* Properties of compute_adjusted_targets.                                 *)

Adjusted == pc = "adjusted"

\* sum of the numerators of a feature's adjusted proportions; the categories
\* of one feature share one denominator
AdjNumSum(f) ==
    SumOver([c \in DOMAIN adjusted_targets[f] |-> adjusted_targets[f][c][1]],
            DOMAIN adjusted_targets[f])

AdjDen(f) ==
    LET c == CHOOSE x \in DOMAIN adjusted_targets[f] : TRUE
    IN  adjusted_targets[f][c][2]

Abs(x) == IF x < 0 THEN -x ELSE x

\* abs(sum - 1.0) < 0.001
SumsToOne(f) == TolDen * Abs(AdjNumSum(f) - AdjDen(f)) < AdjDen(f)

Available(f, c) == CountOf(master_df, f, c)
Demand(f, c) == IdealTotal(target_dict[f][c], num_panels, panel_size)

\* some category of the feature contributes a positive per-panel count: it is
\* short and has a record, or it is not short and has a positive target
HasPositiveRawCount(f) ==
    \E c \in DOMAIN target_dict[f] :
        \/ Available(f, c) < Demand(f, c) /\ Available(f, c) > 0
        \/ Available(f, c) >= Demand(f, c) /\ target_dict[f][c] > 0

\* C8 (as stated): for every feature processed by compute_adjusted_targets
\* the adjusted proportions over its target categories sum to 1.0 within
\* 1e-3, whether or not a category is short or has any available record.
C8_AdjustedSumToOne ==
    Adjusted => \A f \in DOMAIN adjusted_targets : SumsToOne(f)

\* C8 (amended): the adjusted proportions of a feature sum to 1.0 within 1e-3
\* whenever some category of the feature has a positive raw per-panel count;
\* when none has, they are the original target proportions unmodified.
C8_AdjustedSumToOneUnlessZero ==
    Adjusted =>
        \A f \in DOMAIN adjusted_targets :
            /\ HasPositiveRawCount(f) => SumsToOne(f)
            /\ ~HasPositiveRawCount(f) =>
                 \A c \in DOMAIN target_dict[f] :
                    adjusted_targets[f][c] = <<target_dict[f][c], PropDen>>

\* a feature with a short category that still has records was renormalised
C8_Witness ==
    /\ Adjusted
    /\ \E f \in DOMAIN adjusted_targets :
          /\ allocation_info[f].needs_adjustment
          /\ \E c \in DOMAIN target_dict[f] :
                /\ Available(f, c) < Demand(f, c)
                /\ Available(f, c) > 0
          /\ \E c \in DOMAIN target_dict[f] : Available(f, c) >= Demand(f, c)

FullySatisfiable(f) ==
    \A c \in DOMAIN target_dict[f] : Available(f, c) >= Demand(f, c)

\* <<n, d>> = p / PropDen
SameProportion(q, p) == q[1] * PropDen = p * q[2]

TargetSum(f) == SumOver(target_dict[f], DOMAIN target_dict[f])

\* C9 (as stated): if every category of a feature has available >= its ideal
\* total demand, the feature is reported with needs_adjustment = false and
\* every adjusted proportion is identical to the ideal proportion.
C9_SatisfiableKeepsIdeal ==
    Adjusted =>
        \A f \in DOMAIN adjusted_targets :
            FullySatisfiable(f) =>
                /\ ~allocation_info[f].needs_adjustment
                /\ \A c \in DOMAIN target_dict[f] :
                      SameProportion(adjusted_targets[f][c], target_dict[f][c])

\* C9 (amended): such a feature has needs_adjustment = false and every
\* adjusted proportion is the ideal proportion divided by the sum of the
\* feature's ideal proportions.
C9_SatisfiableKeepsNormalisedIdeal ==
    Adjusted =>
        \A f \in DOMAIN adjusted_targets :
            FullySatisfiable(f) =>
                /\ ~allocation_info[f].needs_adjustment
                /\ \A c \in DOMAIN target_dict[f] :
                      adjusted_targets[f][c][1] * TargetSum(f)
                         = target_dict[f][c] * adjusted_targets[f][c][2]

\* a fully satisfiable feature in which a category's supply exactly meets
\* its demand
C9_Witness ==
    /\ Adjusted
    /\ \E f \in DOMAIN adjusted_targets :
          /\ FullySatisfiable(f)
          /\ \E c \in DOMAIN target_dict[f] :
                Available(f, c) = Demand(f, c) /\ Demand(f, c) > 0

\* the categories compute_adjusted_targets finds in shortfall
ShortCategories(f) ==
    {c \in DOMAIN target_dict[f] : Available(f, c) < Demand(f, c)}

TotalNeeded == num_panels * panel_size

\* sum(raw_counts_per_panel.values()) times PropDen * num_panels
RawTotalTimes(f) ==
    SumOver([c \in DOMAIN target_dict[f] |->
                IF c \in ShortCategories(f)
                THEN Available(f, c) * PropDen
                ELSE panel_size * target_dict[f][c] * num_panels],
            DOMAIN target_dict[f])

\* C22: every category in shortfall gets a feasible share: its adjusted
\* proportion times panel_size times num_panels does not exceed the
\* category's available count.
C22_ShortShareFeasible ==
    Adjusted =>
        \A f \in DOMAIN adjusted_targets : \A c \in ShortCategories(f) :
            adjusted_targets[f][c][1] * TotalNeeded
                <= Available(f, c) * adjusted_targets[f][c][2]

\* C22 (amended): the raw per-panel count of a category in shortfall,
\* available / num_panels, is feasible, and its adjusted proportion is that
\* count divided by the feature's raw total; when the category has a record
\* and the feature's targets sum to at most 1 the raw total is below
\* panel_size and adjusted proportion * panel_size * num_panels exceeds the
\* available count.
C22_ShortShareIsRawOverTotal ==
    Adjusted =>
        \A f \in DOMAIN adjusted_targets : \A c \in ShortCategories(f) :
            /\ HasPositiveRawCount(f) =>
                  adjusted_targets[f][c][1] * RawTotalTimes(f)
                     = Available(f, c) * PropDen * adjusted_targets[f][c][2]
            /\ (Available(f, c) > 0 /\ TargetSum(f) <= PropDen) =>
                  /\ RawTotalTimes(f) < panel_size * PropDen * num_panels
                  /\ adjusted_targets[f][c][1] * TotalNeeded
                        > Available(f, c) * adjusted_targets[f][c][2]

\* a short category with two or more records next to a category that is
\* not short
C22_Witness ==
    /\ Adjusted
    /\ \E f \in DOMAIN adjusted_targets :
          /\ \E c \in ShortCategories(f) : Available(f, c) >= 2
          /\ \E c \in DOMAIN target_dict[f] :
                c \notin ShortCategories(f) /\ target_dict[f][c] > 0
          /\ TargetSum(f) <= PropDen

\* adjusted proportion <= ideal proportion
AtMostIdeal(f, c) ==
    adjusted_targets[f][c][1] * PropDen
        <= target_dict[f][c] * adjusted_targets[f][c][2]

\* no short category of the feature is shorter than c, relative to its
\* ideal proportion
ShortestOf(f, c) ==
    \A d \in ShortCategories(f) :
        Available(f, c) * target_dict[f][d] <= Available(f, d) * target_dict[f][c]

\* C29: for every category that compute_adjusted_targets finds in
\* shortfall, the adjusted proportion is less than or equal to the ideal
\* proportion, also when several categories of the feature are short.
C29_ShortAdjustedAtMostIdeal ==
    Adjusted =>
        \A f \in DOMAIN adjusted_targets : \A c \in ShortCategories(f) :
            AtMostIdeal(f, c)

\* C29 (amended): when the feature's targets sum to 1, the adjusted
\* proportion of a category in shortfall is at most its ideal proportion if
\* it is the feature's only short category or, among several, the one with
\* the smallest available count relative to its ideal proportion.
C29_ShortestAdjustedAtMostIdeal ==
    Adjusted =>
        \A f \in DOMAIN adjusted_targets : \A c \in ShortCategories(f) :
            (TargetSum(f) = PropDen /\ ShortestOf(f, c)) => AtMostIdeal(f, c)

\* two categories of one feature are short, both have records, and the
\* less short one got more than its ideal proportion
C29_Witness ==
    /\ Adjusted
    /\ \E f \in DOMAIN adjusted_targets :
          /\ TargetSum(f) = PropDen
          /\ \E c, d \in ShortCategories(f) :
                /\ c # d
                /\ Available(f, c) > 0
                /\ Available(f, d) > 0
                /\ ShortestOf(f, c)
                /\ ~AtMostIdeal(f, d)

----------------------------------------------------------------------------
(* Properties of create_panels.                                            *)

Created == pc = "created"

PanelNos == 1..Len(panels)

RECURSIVE TotalLen(_)
\* sum(len(p) for p in panels)
TotalLen(ps) == IF ps = <<>> THEN 0 ELSE PanelLen(Head(ps)) + TotalLen(Tail(ps))

\* rows of category c of feature f in a panel, counted as the frame holds them
CountInPanel(p, f, c) ==
    Cardinality(RowsWith(master_df, p.pre, f, c))
        + Cardinality(RowsWith(master_df, p.rem, f, c))

RECURSIVE CountInPanels(_, _, _)
CountInPanels(ps, f, c) ==
    IF ps = <<>> THEN 0
    ELSE CountInPanel(Head(ps), f, c) + CountInPanels(Tail(ps), f, c)

SupplyNotExhausted == num_panels * panel_size <= Len(master_df)

NoCategoryShort ==
    \A f \in Range(features) :
        f \in DOMAIN target_dict => FullySatisfiable(f)

\* C1: the panels create_panels returns are pairwise disjoint: no record
\* identifier appears in two different panels.
C1_PanelsDisjoint ==
    Created =>
        \A a, b \in PanelNos :
            a # b => PanelIds(panels[a]) \cap PanelIds(panels[b]) = {}

\* C2: after create_panels and split_all_panels, check_overlap_between_sets
\* over every set of every panel reports has_overlap = false.
C2_NoOverlapReported ==
    pc = "verified" => overlap_results.has_overlap = FALSE

\* C5: every panel holds exactly panel_size records whenever
\* num_panels * panel_size <= |dataset|, also with categories in shortfall
\* and records pre-allocated.
C5_PanelsHavePanelSize ==
    (Created /\ SupplyNotExhausted) =>
        \A a \in PanelNos : PanelLen(panels[a]) = panel_size

\* C6: for every input, the sizes of the returned panels sum to at most the
\* number of records in the dataset.
C6_TotalAtMostDataset ==
    Created => TotalLen(panels) <= Len(master_df)

\* C7: if num_panels * panel_size <= |dataset| and no target category is in
\* shortfall, the panel sizes sum to exactly num_panels * panel_size.
C7_TotalExactWhenSatisfiable ==
    (Created /\ SupplyNotExhausted /\ NoCategoryShort) =>
        TotalLen(panels) = num_panels * panel_size

\* several panels that use up the whole dataset, no category short
C7_Witness ==
    /\ Created
    /\ NoCategoryShort
    /\ num_panels >= 2
    /\ num_panels * panel_size = Len(master_df)
    /\ TotalLen(panels) = Len(master_df)

\* C10: for every category in shortfall, the number of its records summed
\* over all returned panels never exceeds the number available in the dataset.
C10_ShortCategoryWithinSupply ==
    Created =>
        \A f \in DOMAIN allocation_info :
            \A c \in DOMAIN target_dict[f] :
                Available(f, c) < Demand(f, c) =>
                    CountInPanels(panels, f, c) <= Available(f, c)

\* the constrained <<feature, category>> pairs of the run
ConstrainedPairs ==
    UNION {{<<f, c>> : c \in constrained_categories[f]} :
             f \in DOMAIN constrained_categories}

RECURSIVE SumSquaresInPanels(_, _, _)
\* sum of the squares of the per-panel counts of a category
SumSquaresInPanels(ps, f, c) ==
    IF ps = <<>> THEN 0
    ELSE CountInPanel(Head(ps), f, c) * CountInPanel(Head(ps), f, c)
            + SumSquaresInPanels(Tail(ps), f, c)

\* np.std(counts) / np.mean(counts) < CVLimitNum / CVLimitDen for the
\* per-panel counts of a category, both sides squared and multiplied by
\* (n * sum)^2; a category that no panel holds has no coefficient of variation
\* and is left out
CVBelowLimit(f, c) ==
    LET n == Len(panels)
        s == CountInPanels(panels, f, c)
        q == SumSquaresInPanels(panels, f, c)
    IN  s > 0 =>
          CVLimitDen * CVLimitDen * (n * q - s * s) < CVLimitNum * CVLimitNum * s * s

\* C11: in the shortfall regime, for every constrained category the per-panel
\* counts of the category over all returned panels have a coefficient of
\* variation (standard deviation / mean) below 0.15.
C11_ConstrainedCountsNearEqual ==
    Created => \A fc \in ConstrainedPairs : CVBelowLimit(fc[1], fc[2])

\* the features of the call that are not columns of the dataset
MissingFeatures == {f \in Range(features) : f \notin Columns}

DistributionChecked == pc \in {"prealloc", "panels", "created", "raised"}

\* C17: when a listed feature is not a column of the dataset,
\* check_master_distribution records a warning for it and skips it,
\* compute_adjusted_targets skips it, and create_panels completes and
\* returns its panels: it never raises.
C17_MissingFeatureTolerated ==
    /\ DistributionChecked =>
          \A f \in MissingFeatures :
              /\ f \in dist_info.warnings
              /\ f \notin DOMAIN dist_info.features
              /\ f \notin DOMAIN adjusted_targets
              /\ f \notin DOMAIN allocation_info
    /\ pc # "raised"

\* the rows panel k holds: its pre-allocated frame and its sampled frame
RowsOfPanel(k) == panels[k].pre \cup panels[k].rem

\* C19: every identifier pre-allocated to any panel is excluded while the
\* sampler fills a panel: a record pre-allocated to panel j is never placed
\* in a different panel i.
C19_PreAllocatedStayInTheirPanel ==
    pc \in {"panels", "created"} =>
        \A i \in 1..Len(panels) : \A j \in 1..num_panels :
            i # j =>
               {original_index[r] : r \in RowsOfPanel(i)}
                  \cap {original_index[r] : r \in pre_allocated_by_panel[j]} = {}

RECURSIVE Concat(_)
\* the lists of a list, one after the other
Concat(ls) == IF ls = <<>> THEN <<>> ELSE Head(ls) \o Concat(Tail(ls))

\* a category has been pre-allocated: `chunks` holds what each panel got
ChunksDealt == chunks # <<>>

\* C20: the shuffled list of a constrained category is dealt in contiguous
\* slices, chunk i to panel i: the chunks one after the other, in panel
\* order, are a leading part of the shuffled list (so they are contiguous
\* and pairwise disjoint), their sizes differ by at most one, and the
\* records of chunk i are pre-allocated to panel i.
C20_ChunksContiguousDisjoint ==
    ChunksDealt =>
        /\ DOMAIN chunks = 1..num_panels
        /\ Concat(chunks) = SubSeq(cat_indices, 1, Len(Concat(chunks)))
        /\ \A i, j \in 1..num_panels :
              /\ i # j => Range(chunks[i]) \cap Range(chunks[j]) = {}
              /\ Len(chunks[i]) - Len(chunks[j]) <= 1
        /\ \A i \in 1..num_panels :
              Range(chunks[i]) \subseteq pre_allocated_by_panel[i]

\* the constrained categories of a feature
ConstrainedOf(f) ==
    IF f \in DOMAIN constrained_categories THEN constrained_categories[f] ELSE {}

\* the proportions of one feature share a denominator and add up to it
ProportionsSumToOne(tf) ==
    \E den \in {tf[c][2] : c \in DOMAIN tf} :
        /\ \A c \in DOMAIN tf : tf[c][2] = den
        /\ SumOver([c \in DOMAIN tf |-> tf[c][1]], DOMAIN tf) = den

\* C23: the remaining target spec handed to the sampler for a panel with
\* remaining_needed > 0 holds, for each feature, the feature's categories
\* except its constrained ones, and the feature's remaining proportions sum
\* to 1 whenever an unconstrained category with a positive adjusted
\* proportion remains.
C23_RemainingTargetsRenormalised ==
    \A f \in DOMAIN remaining_targets :
        /\ DOMAIN remaining_targets[f] \cap ConstrainedOf(f) = {}
        /\ DOMAIN remaining_targets[f] = DOMAIN adjusted_targets[f] \ ConstrainedOf(f)
        /\ (\E c \in DOMAIN adjusted_targets[f] \ ConstrainedOf(f) :
                adjusted_targets[f][c][1] > 0)
              => ProportionsSumToOne(remaining_targets[f])

\* a panel was filled by the sampler for a feature with a constrained
\* category and two unconstrained categories of positive proportion
C23_Witness ==
    /\ Len(panels) >= 1
    /\ \E f \in DOMAIN remaining_targets :
          /\ ConstrainedOf(f) # {}
          /\ Cardinality({c \in DOMAIN remaining_targets[f] :
                            remaining_targets[f][c][1] > 0}) >= 2

\* the rows pre-allocated to some panel
PreAllocatedRows ==
    UNION {pre_allocated_by_panel[k] : k \in DOMAIN pre_allocated_by_panel}

PreAllocationDone == pc \in {"panels", "created"}

C20_Witness ==
    /\ ChunksDealt
    /\ num_panels >= 2
    /\ \A i \in 1..num_panels : Len(chunks[i]) >= 1
    /\ Len(Concat(chunks)) < Len(cat_indices)

\* the identifiers of the records of the panels built so far
IdsOfPanelsBuilt == UNION {PanelIds(panels[k]) : k \in DOMAIN panels}

\* C24: during the allocation loop of create_panels the exclusion set only
\* grows, and after panel i is built it equals the union of the identifier
\* sets of panels 1..i, whatever the index values of the dataset.
C24_ExclusionSetIsUnionOfPanels ==
    /\ [](PreAllocationDone => used_indices = IdsOfPanelsBuilt)
    /\ [][used_indices \subseteq used_indices']_vars

----------------------------------------------------------------------------
(* Properties of create_balanced_sample.                                   *)

Sampled == pc = "sampled"

\* the pool: the dataset minus the excluded identifiers
Pool == AvailableRows(master_df, original_index, exclude_indices)

\* len() of the returned frame
SampleLen == Cardinality(sampled_df.rows)

\* C12: create_balanced_sample returns exactly sample_size records whenever
\* the pool (the dataset minus the excluded identifiers) has at least
\* sample_size records, for any number of features and any target spec; when
\* the pool is smaller it returns the whole pool.
C12_SampleHasRequestedSize ==
    Sampled =>
        IF Cardinality(Pool) >= sample_size
        THEN SampleLen = sample_size
        ELSE sampled_df.rows = Pool

\* a pool larger than the sample, with excluded records, in which the draws
\* of two remaining features picked more rows than asked for
C12_Witness ==
    /\ Sampled
    /\ Len(features) = 4
    /\ exclude_indices # {}
    /\ Cardinality(Pool) > sample_size
    /\ target_dict["B"] = [U |-> 50, V |-> 50]
    /\ \A v \in {"P", "Q"} : \E r \in Pool : master_df[r]["A"] = v
    /\ \A v \in {"U", "V"} : \E r \in Pool : master_df[r]["B"] = v
    /\ SampleLen = sample_size

\* the identifiers of the returned records
SampleIds == {original_index[r] : r \in sampled_df.rows}

\* C25: create_balanced_sample returns no record twice and only records of
\* the pool (in the dataset, identifier not in exclude_indices), whether the
\* target spec has one, two, three or more features.
C25_SampleWithinPoolNoRepeat ==
    Sampled =>
        /\ sampled_df.rows \subseteq Pool
        /\ SampleIds \cap exclude_indices = {}
        /\ Cardinality(SampleIds) = SampleLen

\* four features, an index that is not the row position, an excluded record
\* and a pool of three records in one joint group: the four draws of the
\* two remaining features take one record each, so one was drawn twice
C25_Witness ==
    /\ Sampled
    /\ Len(features) = 4
    /\ original_index # RangeIndex(master_df)
    /\ exclude_indices # {}
    /\ Cardinality(Pool) = 3
    /\ sample_size = 2
    /\ target_dict["Z"] = [N |-> 100]
    /\ target_dict["B"] = [U |-> 50, V |-> 50]
    /\ \A v \in {"P", "Q"} : \E r \in Pool : master_df[r]["A"] = v
    /\ \A v \in {"U", "V"} : \E r \in Pool : master_df[r]["B"] = v
    /\ SampleLen = 2

----------------------------------------------------------------------------
(* Properties of check_overlap_between_sets.                               *)

OverlapChecked == pc = "checked"

\* the identifiers two frames of the list share
SharedIds(i, j) ==
    {x \in 1..MaxLabels : /\ \E r \in DOMAIN all_sets[i].index : all_sets[i].index[r] = x
                          /\ \E r \in DOMAIN all_sets[j].index : all_sets[j].index[r] = x}

\* the results reported for the pair of list positions (i, j)
ResultsFor(i, j) ==
    {k \in DOMAIN overlap_results.results :
        /\ overlap_results.results[k].set_1 = all_sets[i].name
        /\ overlap_results.results[k].set_2 = all_sets[j].name}

\* C14: on a list of n named sets check_overlap_between_sets returns one
\* result per unordered pair of list positions, n(n-1)/2 results in all, each
\* with the exact number of identifiers the two sets share, and has_overlap
\* is true if and only if some pair shares an identifier.
C14_OverlapResultsExact ==
    OverlapChecked =>
        LET n == Len(all_sets)
        IN  /\ 2 * Len(overlap_results.results) = n * (n - 1)
            /\ \A i, j \in 1..n :
                  i < j =>
                    /\ Cardinality(ResultsFor(i, j)) = 1
                    /\ \A k \in ResultsFor(i, j) :
                          overlap_results.results[k].overlap_count
                             = Cardinality(SharedIds(i, j))
            /\ overlap_results.has_overlap
                  <=> \E i, j \in 1..n : i < j /\ SharedIds(i, j) # {}

\* three sets, one pair sharing an identifier that one frame holds on two
\* rows, another pair sharing nothing
C14_Witness ==
    /\ OverlapChecked
    /\ Len(all_sets) = 3
    /\ \E i, j \in 1..3 :
          /\ i < j
          /\ SharedIds(i, j) # {}
          /\ Len(all_sets[i].index) > Cardinality(Range(all_sets[i].index))
    /\ \E i, j \in 1..3 : i < j /\ SharedIds(i, j) = {}
    /\ overlap_results.has_overlap

----------------------------------------------------------------------------
(* Properties of split_panel_into_n_sets.                                  *)

SetsBuilt == pc = "sets"

SetNos == 1..Len(sets)

RECURSIVE TotalSetLen(_)
TotalSetLen(ss) == IF ss = <<>> THEN 0 ELSE Len(Head(ss)) + TotalSetLen(Tail(ss))

\* C3: split_panel_into_n_sets with num_sets = k returns k sets that are
\* pairwise disjoint and whose union is exactly the panel: every record of
\* the panel is in exactly one set, once.
C3_SetsPartitionPanel ==
    SetsBuilt =>
        /\ Len(sets) = num_sets
        /\ \A a, b \in SetNos : a # b => Range(sets[a]) \cap Range(sets[b]) = {}
        /\ UNION {Range(sets[a]) : a \in SetNos} = PanelIndex(panel)
        /\ TotalSetLen(sets) = Len(panel)

\* a panel with two strata, one of them larger than the number of sets
C3_Witness ==
    /\ SetsBuilt
    /\ Len(Combinations(panel, features, 1)) >= 2
    /\ \E r \in PanelIndex(panel) :
          Cardinality(ComboIndices(panel, features,
                                   Combination(panel, r, features))) > num_sets

\* records of a stratum in a set
StratumCountInSet(combo, a) ==
    Cardinality({m \in 1..Len(sets[a]) :
                   Combination(panel, sets[a][m], features) = combo})

\* C4: for every stratum and every two sets, the numbers of the stratum's
\* records in the two sets differ by at most 1.
C4_StratumBalanced ==
    SetsBuilt =>
        \A combo \in Range(Combinations(panel, features, 1)) :
            \A a, b \in SetNos :
                StratumCountInSet(combo, a) - StratumCountInSet(combo, b) <= 1

\* a stratum that does not divide evenly: some set gets one record more
C4_Witness ==
    /\ SetsBuilt
    /\ \E combo \in Range(Combinations(panel, features, 1)) :
          \E a, b \in SetNos :
              /\ StratumCountInSet(combo, a) = StratumCountInSet(combo, b) + 1
              /\ StratumCountInSet(combo, b) >= 1

\* the strata of the panel and the size of each
Strata == Range(Combinations(panel, features, 1))

StratumSize(combo) == Cardinality(ComboIndices(panel, features, combo))

\* the strata whose records do not divide evenly among the sets
UnevenStrata == {combo \in Strata : StratumSize(combo) % num_sets # 0}

C30_SizesNonIncreasingWithinStrataCount ==
    SetsBuilt =>
        /\ \A a, b \in SetNos : a < b => Len(sets[a]) >= Len(sets[b])
        /\ \A a, b \in SetNos :
              Len(sets[a]) - Len(sets[b]) <= Cardinality(Strata)

\* several strata, none a multiple of the number of sets: the first set is
\* larger than the last by exactly the number of strata
C30_Witness ==
    /\ SetsBuilt
    /\ Cardinality(Strata) >= 2
    /\ UnevenStrata = Strata
    /\ Len(sets[1]) - Len(sets[num_sets]) = Cardinality(Strata)

----------------------------------------------------------------------------
(* Properties of splitting panel by panel.                                 *)

Splitting == pc \in {"split_all", "all_split"}

\* the sets of panel number no when it is split with nothing split before it
SplitAlone(no) ==
    SeededSplit(app, panels[no], features, num_sets,
                SeedOfPanel(app, no) % RngMod).sets

\* C26: splitting one panel leaves that panel's records, every other panel
\* and every other panel's sets unchanged; the sets produced for panel i are
\* a function only of panel i's records, the feature list, num_sets and the
\* seed, so splitting the panels in any order gives the same sets.
C26_SplitsIndependentOfOrder ==
    /\ [](Splitting =>
            \A no \in DOMAIN panel_splits : panel_splits[no] = SplitAlone(no))
    /\ [][/\ panels' = panels
          /\ \A no \in DOMAIN panel_splits :
                /\ no \in DOMAIN panel_splits'
                /\ panel_splits'[no] = panel_splits[no]]_vars

\* two panels, each with a stratum of several records, were split, the
\* second one first: the generator is left where panel 1's split left it
C26_Witness ==
    /\ pc = "all_split"
    /\ Len(panels) >= 2
    /\ \A no \in DOMAIN panels :
          \E r, q \in DOMAIN panels[no] : r # q /\ panels[no][r] = panels[no][q]
    /\ rng_state = SeededSplit(app, panels[1], features, num_sets,
                               SeedOfPanel(app, 1) % RngMod).rng
    /\ rng_state # SeededSplit(app, panels[2], features, num_sets,
                               SeedOfPanel(app, 2) % RngMod).rng

----------------------------------------------------------------------------
(* Properties of the wizard.                                               *)

\* page 3 has evaluated its availability check for num_panels, panel_size
PanelsConfigured == num_panels > 0

\* create_panels has been called and its panels are not stored yet
CreatePanelsCalled ==
    pc \in {"start", "main_start", "prealloc", "panels", "created", "raised"}

OverDemand == num_panels * panel_size > Len(master_df)

\* C15: for a configuration with num_panels * panel_size greater than the
\* number of records of the dataset, check_availability returns a failure
\* and the application does not call create_panels for that configuration.
C15_OverDemandNeverCreates ==
    (PanelsConfigured /\ OverDemand) =>
        /\ ~is_sufficient
        /\ ~CreatePanelsCalled

\* panels were created and stored, then a configuration that asks for more
\* records than the dataset has was refused
C15_Witness ==
    /\ PanelsConfigured
    /\ OverDemand
    /\ ~is_sufficient
    /\ pc = "page"
    /\ session_state.panels # None

\* page 2 has run the validator on the target_dict built from its inputs
ConfigurationValidated == features # <<>> /\ num_panels = 0

\* every feature's proportions sum to a value in [0.99, 1.01]
SumsWithinTolerance ==
    \A f \in DOMAIN target_dict :
        LET total == SumOver(target_dict[f], DOMAIN target_dict[f])
        IN  total * 100 >= 99 * PropDen /\ total * 100 <= 101 * PropDen

\* C16: validate_target_proportions reports a target spec invalid exactly
\* when some feature's proportions sum to a value outside [0.99, 1.01]; the
\* wizard stores a spec only when the validator reports it valid, and an
\* invalid spec leaves the stored one unchanged.
C16_InvalidIffOutsideTolerance ==
    /\ [](ConfigurationValidated => (is_valid <=> SumsWithinTolerance))
    /\ [][(ConfigurationValidated' /\ is_valid') =>
              /\ session_state'.target_dict = target_dict'
              /\ session_state'.selected_features = features']_vars
    /\ [][(ConfigurationValidated' /\ ~is_valid') =>
              session_state' = session_state]_vars
    /\ [][session_state'.target_dict # session_state.target_dict =>
              ConfigurationValidated' /\ is_valid']_vars

\* a dataset is loaded and a target spec is saved
DatasetAndTargetsStored ==
    /\ session_state.df # None
    /\ DOMAIN session_state.target_dict # {}

\* C27: in the wizard, panel creation occurs only after a dataset is loaded
\* and a target spec has been saved, splitting only after panels exist, and
\* overlap verification and export only after splits exist: no step's
\* operation runs while its predecessor's result is absent.
C27_StepsOnlyAfterPredecessor ==
    /\ CreatePanelsCalled => DatasetAndTargetsStored
    /\ session_state.panels # None => DatasetAndTargetsStored
    /\ session_state.panel_splits # None => session_state.panels # None
    /\ overlap_results # None => session_state.panel_splits # None
    /\ exported_files # {} => session_state.panel_splits # None

\* the five steps were taken and the export has just written its files
C27_Witness ==
    /\ pc = "page"
    /\ DatasetAndTargetsStored
    /\ session_state.panels # None
    /\ session_state.panel_splits # None
    /\ exported_files = ExportedNames(session_state.panel_splits)
    /\ exported_files # {}

\* the index labels of stored panel number i
StoredPanelIds(i) ==
    FrameIds(session_state.panels[i], DOMAIN session_state.panels[i])

\* the stored sets of panel number i are pairwise disjoint and cover it
StoredSetsPartition(i) ==
    LET stored == session_state.panel_splits[i]
    IN  /\ \A j \in DOMAIN stored : stored[j] \subseteq StoredPanelIds(i)
        /\ UNION {stored[j] : j \in DOMAIN stored} = StoredPanelIds(i)
        /\ \A j, k \in DOMAIN stored : j # k => stored[j] \cap stored[k] = {}

\* C28: whenever splits are stored in the session, every stored set of
\* panel i is a subset of the stored panel i and the stored sets of panel i
\* partition it, also after Create Panels is run again or a new dataset is
\* uploaded.
C28_StoredSetsPartitionStoredPanels ==
    session_state.panel_splits # None =>
        /\ DOMAIN session_state.panel_splits = DOMAIN session_state.panels
        /\ \A i \in DOMAIN session_state.panel_splits : StoredSetsPartition(i)

====
